---- MODULE Spec2Model ----
(***************************************************************************)
(* Model of the aerospace_units crate (src/Rust): eight quantity kinds,    *)
(* each a wrapper around one f64 held in a canonical unit, with named      *)
(* constructors and accessors, the operator impls, the unary methods (abs, *)
(* Neg, sin, cos, tan), Angle normalisation, Display of Force and          *)
(* Pressure, Force::specific_impulse and the rocket-equation helper of the *)
(* example program.                                                        *)
(*                                                                         *)
(* An f64 is modelled as a binary floating-point number with the IEEE-754  *)
(* behaviour of the original (round to nearest, ties to even; signed       *)
(* zeros; gradual underflow; overflow to infinity; NaN), but with a        *)
(* Prec-bit significand and the exponent range 1-EMax..EMax instead of 53  *)
(* bits and -1022..1023.                                                   *)
(***************************************************************************)
EXTENDS Integers, Sequences, FiniteSets, TLC

\* Width of the significand in bits (f64: 53).
Prec == 19
\* Largest binary exponent of a finite number: finite |x| < 2^(EMax+1) (f64: 1023).
EMax == 40
\* Binary exponent of the smallest normal number 2^EMin; as in IEEE 754 it
\* is 1 - EMax (f64: -1022).
EMin == 1 - EMax

\* Exponent of the unit in the last place of the smallest / largest binade.
EQMin == EMin - (Prec - 1)
EQMax == EMax - (Prec - 1)

(***************************************************************************)
(* f64 values.  A finite value is (-1)^s * m * 2^e; it is stored in        *)
(* canonical form: m = 0 and e = 0 for a zero, 2^(Prec-1) <= m < 2^Prec    *)
(* for a normal number, m < 2^(Prec-1) and e = EQMin for a subnormal one.  *)
(***************************************************************************)
Fin(s, m, e) == [c |-> "fin", s |-> s, m |-> m, e |-> e]
Zero(s) == [c |-> "fin", s |-> s, m |-> 0, e |-> 0]
Inf(s) == [c |-> "inf", s |-> s, m |-> 0, e |-> 0]
NaN == [c |-> "nan", s |-> 0, m |-> 0, e |-> 0]

\* The f64 values.  The operations on them are functions, applied to values.
Float == [c : {"fin", "inf", "nan"}, s : {0, 1}, m : Nat, e : Int]

IsNaN(x) == x.c = "nan"
IsInf(x) == x.c = "inf"
IsFinite(x) == x.c = "fin"
IsZero(x) == x.c = "fin" /\ x.m = 0
\* f64::is_normal: finite, not zero, not subnormal.
IsNormal(x) == x.c = "fin" /\ x.m >= 2^(Prec - 1)

RECURSIVE BitLen(_)
BitLen(n) == IF n = 0 THEN 0 ELSE 1 + BitLen(n \div 2)

XorSign(s, t) == IF s = t THEN 0 ELSE 1

\* Round the exact value (-1)^s * (M + f) * 2^E to the nearest f64, ties to
\* even, where 0 < f < 1 if st (a sticky bit) and f = 0 otherwise.
\* M < 2^30; with st the caller supplies at least Prec + 2 bits in M.
RoundNorm[s \in {0, 1}, m1 \in Nat, e \in Int] ==
    IF m1 = 0 THEN Zero(s)
    ELSE IF m1 = 2^Prec THEN (IF e + 1 > EQMax THEN Inf(s) ELSE Fin(s, 2^(Prec - 1), e + 1))
    ELSE IF e > EQMax THEN Inf(s)
    ELSE Fin(s, m1, e)

RoundShift[s \in {0, 1}, M \in Nat, e \in Int, sh \in Int, st \in BOOLEAN] ==
    IF sh <= 0 THEN
        IF e > EQMax THEN Inf(s) ELSE Fin(s, M * 2^(-sh), e)
    ELSE IF sh > BitLen(M) THEN Zero(s)
    ELSE IF \/ M % 2^sh > 2^(sh - 1)
            \/ /\ M % 2^sh = 2^(sh - 1)
               /\ (st \/ (M \div 2^sh) % 2 = 1)
         THEN RoundNorm[s, (M \div 2^sh) + 1, e]
         ELSE RoundNorm[s, M \div 2^sh, e]

RoundAt[s \in {0, 1}, M \in Nat, E \in Int, e0 \in Int, st \in BOOLEAN] ==
    IF e0 < EQMin THEN RoundShift[s, M, EQMin, EQMin - E, st]
    ELSE RoundShift[s, M, e0, e0 - E, st]

Round(s, M, E, st) ==
    IF M = 0 THEN Zero(s) ELSE RoundAt[s, M, E, E + BitLen(M) - Prec, st]

\* Significand and exponent of a finite nonzero value with the significand
\* scaled to exactly Prec bits (subnormals get an exponent below EQMin).
NShift(x) == Prec - BitLen(x.m)
Nm(x) == x.m * 2^NShift(x)
Ne(x) == x.e - NShift(x)

\* Long division: extend the quotient q (remainder r, divisor d) bit by bit
\* until it has Prec + 2 bits; k counts the bits appended.
RECURSIVE DivBits(_, _, _, _)
DivBits(q, r, d, k) ==
    IF q >= 2^(Prec + 1) THEN <<q, r, k>>
    ELSE LET r2 == 2 * r
         IN  IF r2 >= d THEN DivBits(2 * q + 1, r2 - d, d, k + 1)
             ELSE DivBits(2 * q, r2, d, k + 1)

\* The f64 nearest to (-1)^s * (n / d) * 2^E, for 0 < n < 2^30, 0 < d < 2^30.
QuotRound[s \in {0, 1}, t \in Nat \X Nat \X Nat, E \in Int] ==
    Round(s, t[1], E - t[3], t[2] # 0)

RatRound(s, n, d, E) == QuotRound[s, DivBits(n \div d, n % d, d, 0), E]

\* A decimal literal of the source, n/d, as the nearest f64 (what rustc
\* stores for the literal).
Lit[n \in Int, d \in Int] == IF n = 0 THEN Zero(0)
             ELSE IF n < 0 THEN RatRound(1, -n, d, 0) ELSE RatRound(0, n, d, 0)

\* The product of two Prec-bit significands, (-1)^s * m1 * m2 * 2^E, rounded:
\* the low half of m1 is multiplied separately so that no intermediate
\* exceeds 2^30, and the bits dropped become the sticky bit.
MulSplit[s \in {0, 1}, hi \in Nat, lo \in Nat, E \in Int] ==
    Round(s, hi + (lo \div 2^(Prec \div 2)), E + (Prec \div 2), lo % 2^(Prec \div 2) # 0)

MulRound[s \in {0, 1}, m1 \in Nat, m2 \in Nat, E \in Int] ==
    MulSplit[s, (m1 \div 2^(Prec \div 2)) * m2, (m1 % 2^(Prec \div 2)) * m2, E]

\* f64 * f64
FMul[x \in Float, y \in Float] ==
    IF IsNaN(x) \/ IsNaN(y) THEN NaN
    ELSE IF (IsInf(x) /\ IsZero(y)) \/ (IsZero(x) /\ IsInf(y)) THEN NaN
    ELSE LET s == XorSign(x.s, y.s)
         IN  IF IsInf(x) \/ IsInf(y) THEN Inf(s)
             ELSE IF IsZero(x) \/ IsZero(y) THEN Zero(s)
             ELSE MulRound[s, Nm(x), Nm(y), Ne(x) + Ne(y)]

\* f64 / f64
FDiv[x \in Float, y \in Float] ==
    IF IsNaN(x) \/ IsNaN(y) THEN NaN
    ELSE IF (IsInf(x) /\ IsInf(y)) \/ (IsZero(x) /\ IsZero(y)) THEN NaN
    ELSE LET s == XorSign(x.s, y.s)
         IN  IF IsInf(x) \/ IsZero(y) THEN Inf(s)
             ELSE IF IsInf(y) \/ IsZero(x) THEN Zero(s)
             ELSE RatRound(s, Nm(x), Nm(y), Ne(x) - Ne(y))

\* -x
FNeg[x \in Float] == IF IsNaN(x) THEN NaN ELSE [x EXCEPT !.s = 1 - x.s]

\* f64::abs
FAbs[x \in Float] == IF IsNaN(x) THEN NaN ELSE [x EXCEPT !.s = 0]

\* Sum of two finite nonzero values, |exponent of x| >= that of y: the
\* significands are extended by guard, round and sticky bits.
AddShifted[t \in Nat, d \in Int] ==
    IF d > Prec + 3 THEN 1
    ELSE 2 * (t \div 2^d) + (IF t % 2^d # 0 THEN 1 ELSE 0)

AddRound[S \in Int, E \in Int] ==
    IF S = 0 THEN Zero(0)
    ELSE IF S < 0 THEN Round(1, -S, E, FALSE)
    ELSE Round(0, S, E, FALSE)

AddAligned(x, y) ==
    AddRound[(IF x.s = 1 THEN -(Nm(x) * 8) ELSE Nm(x) * 8)
             + (IF y.s = 1 THEN -AddShifted[Nm(y) * 4, Ne(x) - Ne(y)]
                ELSE AddShifted[Nm(y) * 4, Ne(x) - Ne(y)]),
             Ne(x) - 3]

\* f64 + f64
FAdd[x \in Float, y \in Float] ==
    IF IsNaN(x) \/ IsNaN(y) THEN NaN
    ELSE IF IsInf(x) /\ IsInf(y) THEN (IF x.s = y.s THEN x ELSE NaN)
    ELSE IF IsInf(x) THEN x
    ELSE IF IsInf(y) THEN y
    ELSE IF IsZero(x) /\ IsZero(y) THEN (IF x.s = 1 /\ y.s = 1 THEN Zero(1) ELSE Zero(0))
    ELSE IF IsZero(x) THEN y
    ELSE IF IsZero(y) THEN x
    ELSE IF Ne(x) >= Ne(y) THEN AddAligned(x, y) ELSE AddAligned(y, x)

\* f64 - f64
FSub[x \in Float, y \in Float] == FAdd[x, FNeg[y]]

\* (r * 2^k) mod d, for r < d, by k doublings.
RECURSIVE ModShift(_, _, _)
ModShift(r, d, k) == IF k = 0 \/ r = 0 THEN r ELSE ModShift((2 * r) % d, d, k - 1)

\* f64 % f64 (fmod): the exact remainder, with the sign of the dividend.
FRem[x \in Float, y \in Float] ==
    IF IsNaN(x) \/ IsNaN(y) \/ IsInf(x) \/ IsZero(y) THEN NaN
    ELSE IF IsInf(y) \/ IsZero(x) THEN x
    ELSE IF Ne(x) < Ne(y) THEN x
    ELSE Round(x.s, ModShift(Nm(x) % Nm(y), Nm(y), Ne(x) - Ne(y)), Ne(y), FALSE)

\* |x| < |y| for finite or infinite x, y.
MagLt(x, y) ==
    IF IsInf(x) THEN FALSE
    ELSE IF IsInf(y) THEN TRUE
    ELSE IF y.m = 0 THEN FALSE
    ELSE IF x.m = 0 THEN TRUE
    ELSE x.e < y.e \/ (x.e = y.e /\ x.m < y.m)

\* x == y on f64 (PartialEq): NaN is unequal to everything, -0.0 == 0.0.
FEq(x, y) ==
    /\ ~IsNaN(x) /\ ~IsNaN(y)
    /\ \/ IsZero(x) /\ IsZero(y)
       \/ x = y

\* x < y on f64 (PartialOrd): false when either is NaN.
FLt(x, y) ==
    /\ ~IsNaN(x) /\ ~IsNaN(y)
    /\ ~(IsZero(x) /\ IsZero(y))
    /\ IF x.s = 1 /\ y.s = 0 THEN TRUE
       ELSE IF x.s = 0 /\ y.s = 1 THEN FALSE
       ELSE IF x.s = 0 THEN MagLt(x, y)
       ELSE MagLt(y, x)

FLe(x, y) == FLt(x, y) \/ FEq(x, y)
FGt(x, y) == FLt(y, x)
FGe(x, y) == FLe(y, x)

(***************************************************************************)
(* Constants and the library functions of f64 the crate uses.              *)
(***************************************************************************)
\* std::f64::consts::PI: the f64 nearest to pi.
PI == Lit[245850922, 78256779]

\* The f64 nearest to ln 2, used by FLn.
LN_2 == Lit[49180508, 70952475]

\* f64::ln.  x = f * 2^k with 3/4 <= f < 3/2, ln x = k ln 2 + 2 atanh(z),
\* z = (f - 1) / (f + 1), w = z * z, the series summed in f64 arithmetic.
LnSeries[z \in Float, w \in Float, k \in Int] ==
    FAdd[FMul[Lit[k, 1], LN_2],
         FMul[z, FAdd[Lit[2, 1], FMul[w, FAdd[Lit[2, 3], FMul[w, FAdd[Lit[2, 5],
                 FMul[w, FAdd[Lit[2, 7], FMul[w, FAdd[Lit[2, 9], FMul[w, Lit[2, 11]]]]]]]]]]]]]

LnAtanh[z \in Float, k \in Int] == LnSeries[z, FMul[z, z], k]

LnReduced[f \in Float, k \in Int] ==
    LnAtanh[FDiv[FSub[f, Lit[1, 1]], FAdd[f, Lit[1, 1]]], k]

FLn[x \in Float] ==
    IF IsNaN(x) THEN NaN
    ELSE IF IsZero(x) THEN Inf(1)
    ELSE IF x.s = 1 THEN NaN
    ELSE IF IsInf(x) THEN Inf(0)
    ELSE IF Nm(x) >= 3 * 2^(Prec - 2) THEN LnReduced[Fin(0, Nm(x), -Prec), Ne(x) + Prec]
    ELSE LnReduced[Fin(0, Nm(x), 1 - Prec), Ne(x) + Prec - 1]

(***************************************************************************)
(* The eight quantity kinds.  A quantity is a record of its kind and its   *)
(* one f64 field, named as in the struct.                                  *)
(***************************************************************************)
Kinds == {"Length", "Velocity", "Mass", "Force", "Pressure", "Angle", "MassFlowRate", "SpecificImpulse"}

\* The canonical f64 field of a quantity.
Val(q) ==
    CASE q.kind = "Length" -> q.meters
      [] q.kind = "Velocity" -> q.meters_per_second
      [] q.kind = "Mass" -> q.kilograms
      [] q.kind = "Force" -> q.newtons
      [] q.kind = "Pressure" -> q.pascals
      [] q.kind = "Angle" -> q.radians
      [] q.kind = "MassFlowRate" -> q.kg_per_s
      [] q.kind = "SpecificImpulse" -> q.seconds

\* The struct literal  K { field: x }.
Mk(k, x) ==
    CASE k = "Length" -> [kind |-> "Length", meters |-> x]
      [] k = "Velocity" -> [kind |-> "Velocity", meters_per_second |-> x]
      [] k = "Mass" -> [kind |-> "Mass", kilograms |-> x]
      [] k = "Force" -> [kind |-> "Force", newtons |-> x]
      [] k = "Pressure" -> [kind |-> "Pressure", pascals |-> x]
      [] k = "Angle" -> [kind |-> "Angle", radians |-> x]
      [] k = "MassFlowRate" -> [kind |-> "MassFlowRate", kg_per_s |-> x]
      [] k = "SpecificImpulse" -> [kind |-> "SpecificImpulse", seconds |-> x]

\* Standard gravity rounded to 9.81 m/s^2.
SpecificImpulse_G0_mut == Lit[981, 100]
\* SpecificImpulse::G0, standard gravity [m/s^2].
SpecificImpulse_G0 == Lit[980665, 100000]

\* ---- Length (length.rs) ----
\* Length::from_U(v), U one of: meters, kilometers, feet, nautical_miles, miles.
Length_from(u, v) ==
    CASE u = "meters" -> [kind |-> "Length", meters |-> v]
      [] u = "kilometers" -> [kind |-> "Length", meters |-> FMul[v, Lit[1000, 1]]]
      [] u = "feet" -> [kind |-> "Length", meters |-> FMul[v, Lit[3048, 10000]]]
      [] u = "nautical_miles" -> [kind |-> "Length", meters |-> FMul[v, Lit[1852, 1]]]
      [] u = "miles" -> [kind |-> "Length", meters |-> FMul[v, Lit[1609344, 1000]]]
\* Length::as_feet dividing by 0.3 where from_feet multiplies by 0.3048.
Length_as_mut(self, u) ==
    CASE u = "meters" -> self.meters
      [] u = "kilometers" -> FDiv[self.meters, Lit[1000, 1]]
      [] u = "feet" -> FDiv[self.meters, Lit[3, 10]]
      [] u = "nautical_miles" -> FDiv[self.meters, Lit[1852, 1]]
      [] u = "miles" -> FDiv[self.meters, Lit[1609344, 1000]]
\* self.as_U().
Length_as(self, u) ==
    CASE u = "meters" -> self.meters
      [] u = "kilometers" -> FDiv[self.meters, Lit[1000, 1]]
      [] u = "feet" -> FDiv[self.meters, Lit[3048, 10000]]
      [] u = "nautical_miles" -> FDiv[self.meters, Lit[1852, 1]]
      [] u = "miles" -> FDiv[self.meters, Lit[1609344, 1000]]

\* ---- Velocity (velocity.rs) ----
\* Velocity::from_U(v), U one of: meters_per_second, kilometers_per_second, kilometers_per_hour, feet_per_second, knots, miles_per_hour, mach.
Velocity_from(u, v, aux) ==
    CASE u = "meters_per_second" -> [kind |-> "Velocity", meters_per_second |-> v]
      [] u = "kilometers_per_second" ->
            [kind |-> "Velocity", meters_per_second |-> FMul[v, Lit[1000, 1]]]
      [] u = "kilometers_per_hour" ->
            [kind |-> "Velocity", meters_per_second |-> FDiv[v, Lit[36, 10]]]
      [] u = "feet_per_second" ->
            [kind |-> "Velocity", meters_per_second |-> FMul[v, Lit[3048, 10000]]]
      [] u = "knots" -> [kind |-> "Velocity", meters_per_second |-> FMul[v, Lit[514444, 1000000]]]
      [] u = "miles_per_hour" ->
            [kind |-> "Velocity", meters_per_second |-> FMul[v, Lit[44704, 100000]]]
      [] u = "mach" -> [kind |-> "Velocity", meters_per_second |-> FMul[v, aux]]
\* self.as_U().
Velocity_as(self, u, aux) ==
    CASE u = "meters_per_second" -> self.meters_per_second
      [] u = "kilometers_per_second" -> FDiv[self.meters_per_second, Lit[1000, 1]]
      [] u = "kilometers_per_hour" -> FMul[self.meters_per_second, Lit[36, 10]]
      [] u = "feet_per_second" -> FDiv[self.meters_per_second, Lit[3048, 10000]]
      [] u = "knots" -> FDiv[self.meters_per_second, Lit[514444, 1000000]]
      [] u = "miles_per_hour" -> FDiv[self.meters_per_second, Lit[44704, 100000]]
      [] u = "mach" -> FDiv[self.meters_per_second, aux]

\* ---- Mass (mass.rs) ----
\* Mass::from_U(v), U one of: kilograms, grams, tonnes, pounds, slugs.
Mass_from(u, v) ==
    CASE u = "kilograms" -> [kind |-> "Mass", kilograms |-> v]
      [] u = "grams" -> [kind |-> "Mass", kilograms |-> FDiv[v, Lit[1000, 1]]]
      [] u = "tonnes" -> [kind |-> "Mass", kilograms |-> FMul[v, Lit[1000, 1]]]
      [] u = "pounds" -> [kind |-> "Mass", kilograms |-> FMul[v, Lit[453592, 1000000]]]
      [] u = "slugs" -> [kind |-> "Mass", kilograms |-> FMul[v, Lit[145939, 10000]]]
\* Mass::as_grams dividing by 1000, as as_tonnes does, instead of multiplying.
Mass_as_mut(self, u) ==
    CASE u = "kilograms" -> self.kilograms
      [] u = "grams" -> FDiv[self.kilograms, Lit[1000, 1]]
      [] u = "tonnes" -> FDiv[self.kilograms, Lit[1000, 1]]
      [] u = "pounds" -> FDiv[self.kilograms, Lit[453592, 1000000]]
      [] u = "slugs" -> FDiv[self.kilograms, Lit[145939, 10000]]
\* self.as_U().
Mass_as(self, u) ==
    CASE u = "kilograms" -> self.kilograms
      [] u = "grams" -> FMul[self.kilograms, Lit[1000, 1]]
      [] u = "tonnes" -> FDiv[self.kilograms, Lit[1000, 1]]
      [] u = "pounds" -> FDiv[self.kilograms, Lit[453592, 1000000]]
      [] u = "slugs" -> FDiv[self.kilograms, Lit[145939, 10000]]

\* ---- Force (force.rs) ----
\* Force::from_pounds_force storing the magnitude of its argument.
Force_from_mut(u, v) ==
    CASE u = "newtons" -> [kind |-> "Force", newtons |-> v]
      [] u = "kilonewtons" -> [kind |-> "Force", newtons |-> FMul[v, Lit[1000, 1]]]
      [] u = "meganewtons" -> [kind |-> "Force", newtons |-> FMul[v, Lit[1000000, 1]]]
      [] u = "pounds_force" -> [kind |-> "Force", newtons |-> FMul[FAbs[v], Lit[444822, 100000]]]
      [] u = "kilopounds_force" -> [kind |-> "Force", newtons |-> FMul[v, Lit[444822, 100]]]
\* Force::from_U(v), U one of: newtons, kilonewtons, meganewtons, pounds_force, kilopounds_force.
Force_from(u, v) ==
    CASE u = "newtons" -> [kind |-> "Force", newtons |-> v]
      [] u = "kilonewtons" -> [kind |-> "Force", newtons |-> FMul[v, Lit[1000, 1]]]
      [] u = "meganewtons" -> [kind |-> "Force", newtons |-> FMul[v, Lit[1000000, 1]]]
      [] u = "pounds_force" -> [kind |-> "Force", newtons |-> FMul[v, Lit[444822, 100000]]]
      [] u = "kilopounds_force" -> [kind |-> "Force", newtons |-> FMul[v, Lit[444822, 100]]]
\* self.as_U().
Force_as(self, u) ==
    CASE u = "newtons" -> self.newtons
      [] u = "kilonewtons" -> FDiv[self.newtons, Lit[1000, 1]]
      [] u = "meganewtons" -> FDiv[self.newtons, Lit[1000000, 1]]
      [] u = "pounds_force" -> FDiv[self.newtons, Lit[444822, 100000]]
      [] u = "kilopounds_force" -> FDiv[self.newtons, Lit[444822, 100]]

\* ---- Pressure (pressure.rs) ----
\* Pressure::from_U(v), U one of: pascals, kilopascals, megapascals, bar, atmospheres, psi, inches_hg, mmhg.
Pressure_from(u, v) ==
    CASE u = "pascals" -> [kind |-> "Pressure", pascals |-> v]
      [] u = "kilopascals" -> [kind |-> "Pressure", pascals |-> FMul[v, Lit[1000, 1]]]
      [] u = "megapascals" -> [kind |-> "Pressure", pascals |-> FMul[v, Lit[1000000, 1]]]
      [] u = "bar" -> [kind |-> "Pressure", pascals |-> FMul[v, Lit[100000, 1]]]
      [] u = "atmospheres" -> [kind |-> "Pressure", pascals |-> FMul[v, Lit[101325, 1]]]
      [] u = "psi" -> [kind |-> "Pressure", pascals |-> FMul[v, Lit[6894757, 1000]]]
      [] u = "inches_hg" -> [kind |-> "Pressure", pascals |-> FMul[v, Lit[3386389, 1000]]]
      [] u = "mmhg" -> [kind |-> "Pressure", pascals |-> FMul[v, Lit[133322, 1000]]]
\* self.as_U().
Pressure_as(self, u) ==
    CASE u = "pascals" -> self.pascals
      [] u = "kilopascals" -> FDiv[self.pascals, Lit[1000, 1]]
      [] u = "megapascals" -> FDiv[self.pascals, Lit[1000000, 1]]
      [] u = "bar" -> FDiv[self.pascals, Lit[100000, 1]]
      [] u = "atmospheres" -> FDiv[self.pascals, Lit[101325, 1]]
      [] u = "psi" -> FDiv[self.pascals, Lit[6894757, 1000]]
      [] u = "inches_hg" -> FDiv[self.pascals, Lit[3386389, 1000]]
      [] u = "mmhg" -> FDiv[self.pascals, Lit[133322, 1000]]

\* ---- Angle (angle.rs) ----
\* Angle::from_U(v), U one of: radians, degrees, arcminutes, arcseconds, revolutions.
Angle_from(u, v) ==
    CASE u = "radians" -> [kind |-> "Angle", radians |-> v]
      [] u = "degrees" -> [kind |-> "Angle", radians |-> FDiv[FMul[v, PI], Lit[180, 1]]]
      [] u = "arcminutes" ->
            [kind |-> "Angle", radians |-> FDiv[FMul[v, PI], FMul[Lit[180, 1], Lit[60, 1]]]]
      [] u = "arcseconds" ->
            [kind |-> "Angle", radians |-> FDiv[FMul[v, PI], FMul[Lit[180, 1], Lit[3600, 1]]]]
      [] u = "revolutions" -> [kind |-> "Angle", radians |-> FMul[FMul[v, Lit[2, 1]], PI]]
\* Angle::as_arcseconds with 60 arcseconds to the degree.
Angle_as_mut(self, u) ==
    CASE u = "radians" -> self.radians
      [] u = "degrees" -> FDiv[FMul[self.radians, Lit[180, 1]], PI]
      [] u = "arcminutes" -> FDiv[FMul[FMul[self.radians, Lit[180, 1]], Lit[60, 1]], PI]
      [] u = "arcseconds" -> FDiv[FMul[FMul[self.radians, Lit[180, 1]], Lit[60, 1]], PI]
      [] u = "revolutions" -> FDiv[self.radians, FMul[Lit[2, 1], PI]]
\* self.as_U().
Angle_as(self, u) ==
    CASE u = "radians" -> self.radians
      [] u = "degrees" -> FDiv[FMul[self.radians, Lit[180, 1]], PI]
      [] u = "arcminutes" -> FDiv[FMul[FMul[self.radians, Lit[180, 1]], Lit[60, 1]], PI]
      [] u = "arcseconds" -> FDiv[FMul[FMul[self.radians, Lit[180, 1]], Lit[3600, 1]], PI]
      [] u = "revolutions" -> FDiv[self.radians, FMul[Lit[2, 1], PI]]

\* ---- MassFlowRate (mass_flow_rate.rs) ----
\* MassFlowRate::from_U(v), U one of: kg_per_s, lb_per_s, tonnes_per_s, kg_per_min.
MassFlowRate_from(u, v) ==
    CASE u = "kg_per_s" -> [kind |-> "MassFlowRate", kg_per_s |-> v]
      [] u = "lb_per_s" -> [kind |-> "MassFlowRate", kg_per_s |-> FMul[v, Lit[453592, 1000000]]]
      [] u = "tonnes_per_s" -> [kind |-> "MassFlowRate", kg_per_s |-> FMul[v, Lit[1000, 1]]]
      [] u = "kg_per_min" -> [kind |-> "MassFlowRate", kg_per_s |-> FDiv[v, Lit[60, 1]]]
\* self.as_U().
MassFlowRate_as(self, u) ==
    CASE u = "kg_per_s" -> self.kg_per_s
      [] u = "lb_per_s" -> FDiv[self.kg_per_s, Lit[453592, 1000000]]
      [] u = "tonnes_per_s" -> FDiv[self.kg_per_s, Lit[1000, 1]]
      [] u = "kg_per_min" -> FMul[self.kg_per_s, Lit[60, 1]]

\* ---- SpecificImpulse (specific_impulse.rs) ----
\* SpecificImpulse::from_U(v), U one of: seconds, exhaust_velocity.
SpecificImpulse_from(u, v) ==
    CASE u = "seconds" -> [kind |-> "SpecificImpulse", seconds |-> v]
      [] u = "exhaust_velocity" ->
            [kind |-> "SpecificImpulse", seconds |-> FDiv[v, SpecificImpulse_G0]]
\* SpecificImpulse::as_exhaust_velocity without the factor G0.
SpecificImpulse_as_mut(self, u) ==
    CASE u = "seconds" -> self.seconds
      [] u = "exhaust_velocity" -> self.seconds
      [] u = "exhaust_velocity_kmps" -> FDiv[FMul[self.seconds, SpecificImpulse_G0], Lit[1000, 1]]
\* self.as_U().
SpecificImpulse_as(self, u) ==
    CASE u = "seconds" -> self.seconds
      [] u = "exhaust_velocity" -> FMul[self.seconds, SpecificImpulse_G0]
      [] u = "exhaust_velocity_kmps" -> FDiv[FMul[self.seconds, SpecificImpulse_G0], Lit[1000, 1]]

\* The units each kind has both a from_U constructor and an as_U accessor for.
Units(k) ==
    CASE k = "Length" -> {"meters", "kilometers", "feet", "nautical_miles", "miles"}
      [] k = "Velocity" ->
            {"meters_per_second", "kilometers_per_second", "kilometers_per_hour", "feet_per_second", "knots", "miles_per_hour", "mach"}
      [] k = "Mass" -> {"kilograms", "grams", "tonnes", "pounds", "slugs"}
      [] k = "Force" ->
            {"newtons", "kilonewtons", "meganewtons", "pounds_force", "kilopounds_force"}
      [] k = "Pressure" ->
            {"pascals", "kilopascals", "megapascals", "bar", "atmospheres", "psi", "inches_hg", "mmhg"}
      [] k = "Angle" -> {"radians", "degrees", "arcminutes", "arcseconds", "revolutions"}
      [] k = "MassFlowRate" -> {"kg_per_s", "lb_per_s", "tonnes_per_s", "kg_per_min"}
      [] k = "SpecificImpulse" -> {"seconds", "exhaust_velocity"}

\* The units a kind has an accessor for.
AsUnits(k) == IF k = "SpecificImpulse" THEN Units(k) \cup {"exhaust_velocity_kmps"} ELSE Units(k)

\* K::from_U(v); aux is the speed of sound of from_mach.
Construct(k, u, v, aux) ==
    CASE k = "Length" -> Length_from(u, v)
      [] k = "Velocity" -> Velocity_from(u, v, aux)
      [] k = "Mass" -> Mass_from(u, v)
      [] k = "Force" -> Force_from(u, v)
      [] k = "Pressure" -> Pressure_from(u, v)
      [] k = "Angle" -> Angle_from(u, v)
      [] k = "MassFlowRate" -> MassFlowRate_from(u, v)
      [] k = "SpecificImpulse" -> SpecificImpulse_from(u, v)

\* q.as_U(); aux is the speed of sound of as_mach.
Access(q, u, aux) ==
    CASE q.kind = "Length" -> Length_as(q, u)
      [] q.kind = "Velocity" -> Velocity_as(q, u, aux)
      [] q.kind = "Mass" -> Mass_as(q, u)
      [] q.kind = "Force" -> Force_as(q, u)
      [] q.kind = "Pressure" -> Pressure_as(q, u)
      [] q.kind = "Angle" -> Angle_as(q, u)
      [] q.kind = "MassFlowRate" -> MassFlowRate_as(q, u)
      [] q.kind = "SpecificImpulse" -> SpecificImpulse_as(q, u)

\* Pressure::sea_level
Pressure_sea_level == Pressure_from("atmospheres", Lit[1, 1])

\* Angle::normalize correcting a negative remainder by half a turn only.
Angle_normalize_mut(self) ==
    LET rad0 == FRem[self.radians, FMul[Lit[2, 1], PI]]
        rad1 == IF FLt(rad0, Lit[0, 1]) THEN FAdd[rad0, PI] ELSE rad0
    IN  [kind |-> "Angle", radians |-> rad1]
\* Angle::normalize
Angle_normalize(self) ==
    LET rad0 == FRem[self.radians, FMul[Lit[2, 1], PI]]
        rad1 == IF FLt(rad0, Lit[0, 1]) THEN FAdd[rad0, FMul[Lit[2, 1], PI]] ELSE rad0
    IN  [kind |-> "Angle", radians |-> rad1]

\* Angle::normalize_signed testing rad > PI, which leaves pi itself unwrapped.
Angle_normalize_signed_mut(self) ==
    LET rad0 == FRem[self.radians, FMul[Lit[2, 1], PI]]
        rad1 == IF FGt(rad0, PI) THEN FSub[rad0, FMul[Lit[2, 1], PI]]
                ELSE IF FLt(rad0, FNeg[PI]) THEN FAdd[rad0, FMul[Lit[2, 1], PI]]
                ELSE rad0
    IN  [kind |-> "Angle", radians |-> rad1]
\* Angle::normalize_signed
Angle_normalize_signed(self) ==
    LET rad0 == FRem[self.radians, FMul[Lit[2, 1], PI]]
        rad1 == IF FGe(rad0, PI) THEN FSub[rad0, FMul[Lit[2, 1], PI]]
                ELSE IF FLt(rad0, FNeg[PI]) THEN FAdd[rad0, FMul[Lit[2, 1], PI]]
                ELSE rad0
    IN  [kind |-> "Angle", radians |-> rad1]

\* Force::specific_impulse that special-cases a zero mass flow: 0 s
Force_specific_impulse_checked_mut(self, mass_flow_rate) ==
    IF IsZero(MassFlowRate_as(mass_flow_rate, "kg_per_s"))
    THEN SpecificImpulse_from("seconds", Zero(0))
    ELSE SpecificImpulse_from("seconds",
             FDiv[self.newtons, FMul[MassFlowRate_as(mass_flow_rate, "kg_per_s"), SpecificImpulse_G0]])
\* Force::specific_impulse dividing by G0 after the mass flow, not by
\* their product.
Force_specific_impulse_mut(self, mass_flow_rate) ==
    LET G0 == Lit[980665, 100000]
        isp_seconds == FMul[FDiv[self.newtons, MassFlowRate_as(mass_flow_rate, "kg_per_s")], G0]
    IN  SpecificImpulse_from("seconds", isp_seconds)
\* Force::specific_impulse, with its function-local G0.
Force_specific_impulse(self, mass_flow_rate) ==
    LET G0 == Lit[980665, 100000]
        isp_seconds == FDiv[self.newtons, FMul[MassFlowRate_as(mass_flow_rate, "kg_per_s"), G0]]
    IN  SpecificImpulse_from("seconds", isp_seconds)

\* A let binding of the source holds a value: The({e(v) : v \in {d}}) is
\* e with v bound to the value of d.
The(S) == CHOOSE r \in S : TRUE

\* calculate_delta_v that special-cases an empty stage: 0 m/s for a zero
\* dry mass.
calculate_delta_v_checked_mut(isp, wet_mass, dry_mass) ==
    IF IsZero(Mass_as(dry_mass, "kilograms"))
    THEN Velocity_from("meters_per_second", Zero(0), NaN)
    ELSE Velocity_from("meters_per_second",
             FMul[SpecificImpulse_as(isp, "exhaust_velocity"),
                  FLn[FDiv[Mass_as(wet_mass, "kilograms"), Mass_as(dry_mass, "kilograms")]]],
             NaN)
\* calculate_delta_v with the mass ratio inverted (dry over wet).
calculate_delta_v_mut(isp, wet_mass, dry_mass) ==
    The({ The({ Velocity_from("meters_per_second", delta_v_mps, NaN)
                : delta_v_mps \in {FMul[SpecificImpulse_as(isp, "exhaust_velocity"), FLn[mass_ratio]]} })
          : mass_ratio \in {FDiv[Mass_as(dry_mass, "kilograms"), Mass_as(wet_mass, "kilograms")]} })

\* calculate_delta_v of examples/rocket_equation.rs (Tsiolkovsky).
calculate_delta_v(isp, wet_mass, dry_mass) ==
    The({ The({ Velocity_from("meters_per_second", delta_v_mps, NaN)
                : delta_v_mps \in {FMul[SpecificImpulse_as(isp, "exhaust_velocity"), FLn[mass_ratio]]} })
          : mass_ratio \in {FDiv[Mass_as(wet_mass, "kilograms"), Mass_as(dry_mass, "kilograms")]} })

(***************************************************************************)
(* The operator impls.  Every kind has the same four (Add, Sub, Mul<f64>,  *)
(* Div<f64>), each on the one field; six kinds have Div<Self>; all derive  *)
(* PartialEq and PartialOrd.                                               *)
(***************************************************************************)
\* Angle + Angle wrapping its sum into [0, 2 pi), as a heading would.
Quantity_add_wrap_mut(self, other) ==
    IF self.kind = "Angle"
    THEN Angle_normalize(Mk(self.kind, FAdd[Val(self), Val(other)]))
    ELSE Mk(self.kind, FAdd[Val(self), Val(other)])
\* impl Add for K: self + other
Quantity_add(self, other) == Mk(self.kind, FAdd[Val(self), Val(other)])
\* impl Sub that clamps at zero: max(self - other, 0.0)
Quantity_sub_clamped_mut(self, other) ==
    IF FLt(FSub[Val(self), Val(other)], Zero(0)) THEN Mk(self.kind, Zero(0))
    ELSE Mk(self.kind, FSub[Val(self), Val(other)])
\* impl Sub with the operands swapped: other - self
Quantity_sub_mut(x, y) == Mk(x.kind, FSub[Val(y), Val(x)])
\* impl Sub for K: self - other
Quantity_sub(self, other) == Mk(self.kind, FSub[Val(self), Val(other)])
\* impl Mul<f64> for K: self * scalar
Quantity_mul(self, scalar) == Mk(self.kind, FMul[Val(self), scalar])
\* impl Div<f64> that special-cases a zero divisor: 0.0 instead of self / 0.0
Quantity_div_checked_mut(self, scalar) ==
    IF IsZero(scalar) THEN Mk(self.kind, Zero(0)) ELSE Mk(self.kind, FDiv[Val(self), scalar])
\* impl Div<f64> that multiplies: self * scalar
Quantity_div_mut(self, scalar) == Mk(self.kind, FMul[Val(self), scalar])
\* impl Div<f64> for K: self / scalar
Quantity_div(self, scalar) == Mk(self.kind, FDiv[Val(self), scalar])
\* impl Div<K> with the operands swapped: other / self
Quantity_ratio_mut(x, y) == FDiv[Val(y), Val(x)]
\* impl Div<K> for K: self / other, a dimensionless f64
Quantity_ratio(self, other) == FDiv[Val(self), Val(other)]
\* #[derive(PartialEq)]: self == other
Quantity_eq(self, other) == FEq(Val(self), Val(other))
\* #[derive(PartialEq)]: self != other
Quantity_ne(self, other) == ~FEq(Val(self), Val(other))
\* #[derive(PartialOrd)]: self < other
Quantity_lt(self, other) == FLt(Val(self), Val(other))
\* a derived <= that is "not >": true also for unordered operands
Quantity_le_mut(self, other) == ~FGt(Val(self), Val(other))
\* #[derive(PartialOrd)]: self <= other
Quantity_le(self, other) == FLe(Val(self), Val(other))
\* #[derive(PartialOrd)]: self > other
Quantity_gt(self, other) == FGt(Val(self), Val(other))
\* #[derive(PartialOrd)]: self >= other
Quantity_ge(self, other) == FGe(Val(self), Val(other))

\* is_positive with >= for >: self.field >= 0.0
Quantity_is_positive_mut(self) == FGe(Val(self), Zero(0))
\* K::is_positive: self.field > 0.0
Quantity_is_positive(self) == FGt(Val(self), Zero(0))

\* The kinds with pub fn is_positive (impl Angle has none).
PositiveKinds ==
    {"Length", "Velocity", "Mass", "Force", "Pressure", "MassFlowRate", "SpecificImpulse"}
\* The kinds with impl Div<Self>, Angle's impl missing.
RatioKinds_mut == {"Length", "Velocity", "Mass", "Force", "Pressure"}
\* The kinds with impl Div<Self>.
RatioKinds == {"Length", "Velocity", "Mass", "Force", "Pressure", "Angle"}

\* An f64 / bool result of an accessor, a ratio or a comparison.
F64(x) == [kind |-> "f64", value |-> x]
Bool(p) == [kind |-> "bool", value |-> p]

\* The impls with one more: impl Add<Length> for Force.
BinaryImpls_mut ==
    {[op |-> o, lhs |-> k, rhs |-> k, out |-> k] : o \in {"add", "sub"}, k \in Kinds}
    \cup {[op |-> o, lhs |-> k, rhs |-> "f64", out |-> k] : o \in {"mul", "div"}, k \in Kinds}
    \cup {[op |-> "div", lhs |-> k, rhs |-> k, out |-> "f64"] : k \in RatioKinds}
    \cup {[op |-> o, lhs |-> k, rhs |-> k, out |-> "bool"]
              : o \in {"eq", "ne", "lt", "le", "gt", "ge"}, k \in Kinds}
    \cup {[op |-> "specific_impulse", lhs |-> "Force", rhs |-> "MassFlowRate",
           out |-> "SpecificImpulse"]}
    \cup {[op |-> "add", lhs |-> "Force", rhs |-> "Length", out |-> "Force"]}
\* The binary operations the crate defines, with the types of the left and
\* right operand and of the result: the operator impls, the derived
\* comparisons and Force::specific_impulse.
BinaryImpls ==
    {[op |-> o, lhs |-> k, rhs |-> k, out |-> k] : o \in {"add", "sub"}, k \in Kinds}
    \cup {[op |-> o, lhs |-> k, rhs |-> "f64", out |-> k] : o \in {"mul", "div"}, k \in Kinds}
    \cup {[op |-> "div", lhs |-> k, rhs |-> k, out |-> "f64"] : k \in RatioKinds}
    \cup {[op |-> o, lhs |-> k, rhs |-> k, out |-> "bool"]
              : o \in {"eq", "ne", "lt", "le", "gt", "ge"}, k \in Kinds}
    \cup {[op |-> "specific_impulse", lhs |-> "Force", rhs |-> "MassFlowRate",
           out |-> "SpecificImpulse"]}

\* x op y type-checks: an impl exists for the operand types.
HasImpl(op, x, y) ==
    \E i \in BinaryImpls : i.op = op /\ i.lhs = x.kind /\ i.rhs = y.kind

\* Static dispatch of  x op y.
ApplyBinary(op, x, y) ==
    CASE op = "add" -> Quantity_add(x, y)
      [] op = "sub" -> Quantity_sub(x, y)
      [] op = "mul" -> Quantity_mul(x, y.value)
      [] op = "div" /\ y.kind = "f64" -> Quantity_div(x, y.value)
      [] op = "div" /\ y.kind # "f64" -> F64(Quantity_ratio(x, y))
      [] op = "eq" -> Bool(Quantity_eq(x, y))
      [] op = "ne" -> Bool(Quantity_ne(x, y))
      [] op = "lt" -> Bool(Quantity_lt(x, y))
      [] op = "le" -> Bool(Quantity_le(x, y))
      [] op = "gt" -> Bool(Quantity_gt(x, y))
      [] op = "ge" -> Bool(Quantity_ge(x, y))
      [] op = "specific_impulse" -> Force_specific_impulse(x, y)

(***************************************************************************)
(* impl fmt::Display for Force and for Pressure.  The text is kept as its  *)
(* parts: the number formatted with {:.2} and the unit suffix.             *)
(***************************************************************************)
\* n / 2^k rounded to the nearest integer, ties to even (n < 2^30).
RoundHalfEven(n, k) ==
    IF k > 30 THEN 0
    ELSE IF n % 2^k > 2^(k - 1) \/ (n % 2^k = 2^(k - 1) /\ (n \div 2^k) % 2 = 1)
         THEN (n \div 2^k) + 1
    ELSE n \div 2^k

\* format!("{:.2}", x): "NaN", "inf" and "-inf" for the non-finite values;
\* otherwise a "-" for a set sign bit (also on -0.0 and on values that round
\* to 0.00), the integer part and two decimals of |x| rounded to the nearest
\* hundredth, ties to even.  The integer part of a value of 2^Prec or more
\* is kept as <<m, e>>, for m * 2^e.
Fmt2[x \in Float] ==
    IF x.c = "nan" THEN [neg |-> FALSE, int |-> "NaN", frac |-> 0]
    ELSE IF x.c = "inf" THEN [neg |-> x.s = 1, int |-> "inf", frac |-> 0]
    ELSE IF x.e >= 0 THEN [neg |-> x.s = 1, int |-> <<x.m, x.e>>, frac |-> 0]
    ELSE [neg |-> x.s = 1,
          int |-> <<RoundHalfEven(x.m * 100, -x.e) \div 100, 0>>,
          frac |-> RoundHalfEven(x.m * 100, -x.e) % 100]

\* write!(f, "{:.2} <unit>", value)
Text(value, unit) == [kind |-> "String", number |-> Fmt2[value], unit |-> unit]

\* Display for Force choosing the unit without abs(): self.newtons >= ..
Force_fmt_mut(self) ==
    IF FGe(self.newtons, Lit[1000000, 1]) THEN Text(Force_as(self, "meganewtons"), "MN")
    ELSE IF FGe(self.newtons, Lit[1000, 1]) THEN Text(Force_as(self, "kilonewtons"), "kN")
    ELSE Text(self.newtons, "N")
\* impl fmt::Display for Force
Force_fmt(self) ==
    IF FGe(FAbs[self.newtons], Lit[1000000, 1]) THEN Text(Force_as(self, "meganewtons"), "MN")
    ELSE IF FGe(FAbs[self.newtons], Lit[1000, 1]) THEN Text(Force_as(self, "kilonewtons"), "kN")
    ELSE Text(self.newtons, "N")

\* impl fmt::Display for Pressure
Pressure_fmt(self) ==
    IF FGe(self.pascals, Lit[1000, 1]) THEN Text(Pressure_as(self, "kilopascals"), "kPa")
    ELSE Text(self.pascals, "Pa")

\* The kinds whose Display picks the unit by the value.
ScaledDisplayKinds == {"Force", "Pressure"}

\* format!("{}", q), static dispatch on the kind
Display_fmt(q) == IF q.kind = "Force" THEN Force_fmt(q) ELSE Pressure_fmt(q)

(***************************************************************************)
(* State.  A session of calls on the crate: f64 inputs, up to three        *)
(* quantities built from them, and the value computed from them so far.    *)
(***************************************************************************)
VARIABLES
    raw,    \* the f64 handed to a constructor
    ctor,   \* the constructor that built a: its kind, unit and from_mach's speed of sound
    a,      \* first operand (self)
    b,      \* second operand (other)
    c,      \* third operand
    acc,    \* result of the last call
    steps   \* the calls that led from a (b, c) to acc, oldest first

vars == <<raw, ctor, a, b, c, acc, steps>>

\* Longest chain of calls followed.
MaxSteps == 2

NoF == [c |-> "none", s |-> 0, m |-> 0, e |-> 0]
NoQ == [kind |-> "None"]
NoCtor == [kind |-> "None", unit |-> "-", aux |-> NoF]

Step(op, unit, lhs, rhs, third, operand, aux, out) ==
    [op |-> op, unit |-> unit, lhs |-> lhs, rhs |-> rhs, third |-> third,
     operand |-> operand, aux |-> aux, out |-> out]

\* The value the next chained call is made on.
cur == IF steps = <<>> THEN a ELSE acc

Operand(name) == IF name = "a" THEN a ELSE IF name = "b" THEN b ELSE c

InitWith(Raws, As, Bs, Cs) ==
    /\ raw \in Raws
    /\ a \in As
    /\ b \in Bs
    /\ c \in Cs
    /\ ctor = NoCtor
    /\ acc = NoQ
    /\ steps = <<>>

\* let a = K::from_U(raw)
FromUnit(k, u, aux) ==
    /\ a = NoQ
    /\ raw # NoF
    /\ u \in Units(k)
    /\ a' = Construct(k, u, raw, aux)
    /\ ctor' = [kind |-> k, unit |-> u, aux |-> aux]
    /\ UNCHANGED <<raw, b, c, acc, steps>>

\* a.as_U()
AsUnit(u, aux) ==
    /\ a # NoQ
    /\ u \in AsUnits(a.kind)
    /\ acc' = F64(Access(a, u, aux))
    /\ steps' = <<Step("as", u, a.kind, "-", "-", "a", aux, "f64")>>
    /\ UNCHANGED <<raw, ctor, a, b, c>>

\* cur op other, for an operator impl, a derived comparison or
\* Force::specific_impulse; other is a, b or c.
Binary(op, name) ==
    /\ Len(steps) < MaxSteps
    /\ cur # NoQ
    /\ Operand(name) # NoQ
    /\ HasImpl(op, cur, Operand(name))
    /\ acc' = ApplyBinary(op, cur, Operand(name))
    /\ steps' = Append(steps, Step(op, "-", cur.kind, Operand(name).kind, "-", name, NoF, acc'.kind))
    /\ UNCHANGED <<raw, ctor, a, b, c>>

\* other * acc, for an f64 acc (a ratio): Mul<f64> on a, b or c.
ScaleBy(name) ==
    /\ Len(steps) < MaxSteps
    /\ steps # <<>>
    /\ acc.kind = "f64"
    /\ Operand(name) # NoQ
    /\ HasImpl("mul", Operand(name), acc)
    /\ acc' = ApplyBinary("mul", Operand(name), acc)
    /\ steps' = Append(steps, Step("mul", "-", Operand(name).kind, "f64", "-", name, NoF, acc'.kind))
    /\ UNCHANGED <<raw, ctor, a, b, c>>

\* cur.normalize()
Normalize ==
    /\ Len(steps) < MaxSteps
    /\ cur.kind = "Angle"
    /\ acc' = Angle_normalize(cur)
    /\ steps' = Append(steps, Step("normalize", "-", "Angle", "-", "-", "-", NoF, acc'.kind))
    /\ UNCHANGED <<raw, ctor, a, b, c>>

\* cur.normalize_signed()
NormalizeSigned ==
    /\ Len(steps) < MaxSteps
    /\ cur.kind = "Angle"
    /\ acc' = Angle_normalize_signed(cur)
    /\ steps' = Append(steps, Step("normalize_signed", "-", "Angle", "-", "-", "-", NoF, acc'.kind))
    /\ UNCHANGED <<raw, ctor, a, b, c>>

\* calculate_delta_v(a, b, c)
DeltaV ==
    /\ steps = <<>>
    /\ a.kind = "SpecificImpulse"
    /\ b.kind = "Mass"
    /\ c.kind = "Mass"
    /\ acc' = calculate_delta_v(a, b, c)
    /\ steps' = <<Step("calculate_delta_v", "-", a.kind, b.kind, c.kind, "-", NoF, acc'.kind)>>
    /\ UNCHANGED <<raw, ctor, a, b, c>>

\* cur.is_positive()
IsPositive ==
    /\ Len(steps) < MaxSteps
    /\ cur.kind \in PositiveKinds
    /\ acc' = Bool(Quantity_is_positive(cur))
    /\ steps' = Append(steps, Step("is_positive", "-", cur.kind, "-", "-", "-", NoF, "bool"))
    /\ UNCHANGED <<raw, ctor, a, b, c>>

\* cur.to_string(), through impl fmt::Display
Display ==
    /\ Len(steps) < MaxSteps
    /\ cur.kind \in ScaledDisplayKinds
    /\ acc' = Display_fmt(cur)
    /\ steps' = Append(steps, Step("to_string", "-", cur.kind, "-", "-", "-", NoF, "String"))
    /\ UNCHANGED <<raw, ctor, a, b, c>>

(***************************************************************************)
(* Inputs.                                                                 *)
(***************************************************************************)
\* f64::MAX, f64::MIN_POSITIVE and the smallest subnormal.
MaxFinite == Fin(0, 2^Prec - 1, EQMax)
MinNormal == Fin(0, 2^(Prec - 1), EQMin)
MinSubnormal == Fin(0, 1, EQMin)

\* |x - v| <= 1e-4 * |v|: x equals v within the relative tolerance of the
\* crate's tests.
WithinTol(x, v) == FLe(FMul[FAbs[FSub[x, v]], Lit[10000, 1]], FAbs[v])

\* Speeds of sound for from_mach / as_mach (340.29 m/s is the tests' value).
SoundSpeeds == {Lit[34029, 100], Lit[29507, 100], Zero(0)}
AuxFor(u) == IF u = "mach" THEN SoundSpeeds ELSE {NoF}

(***************************************************************************)
(* SpecConv: a quantity is built from an f64 in some unit and read back    *)
(* in the units of its kind.                                               *)
(***************************************************************************)
ConvInputs ==
    { Lit[0, 1], Lit[1, 1], Lit[-1, 1], Lit[2, 1], Lit[100, 1], Lit[1000, 1],
      Lit[1, 1000], Lit[1, 3], Lit[12345678, 1000], Lit[-27315, 100],
      Lit[450, 1], Lit[2942, 1], Lit[6770000, 1], Lit[300, 1], Lit[760, 1], Lit[180, 1],
      MaxFinite, FNeg[MaxFinite], Fin(0, 2^Prec - 1, EQMax - 12),
      MinNormal, Fin(1, 2^(Prec - 1) + 1, EQMin + 12), MinSubnormal,
      Inf(0), NaN }

ConvInit == InitWith(ConvInputs, {NoQ}, {NoQ}, {NoQ})

ConvNext ==
    \/ \E k \in Kinds : \E u \in Units(k) : \E aux \in AuxFor(u) : FromUnit(k, u, aux)
    \/ a # NoQ /\ \E u \in AsUnits(a.kind) : \E aux \in AuxFor(u) : AsUnit(u, aux)

SpecConv == ConvInit /\ [][ConvNext]_vars

\* acc is K::from_U(raw).as_U() for a finite raw (and, for Mach, the same
\* nonzero speed of sound both ways).
IsRoundTrip ==
    /\ steps # <<>>
    /\ steps[1].op = "as"
    /\ steps[1].unit = ctor.unit
    /\ steps[1].aux = ctor.aux
    /\ ctor.unit = "mach" => ~IsZero(ctor.aux)
    /\ IsFinite(raw)

\* C1 as stated: for every kind and unit and every finite v,
\* from_U(v).as_U() equals v within relative error 1e-4.
C1_RoundTripAllFinite == IsRoundTrip => WithinTol(acc.value, raw)

\* C1 amended: the round trip equals v within relative error 1e-4 whenever
\* v is zero or neither conversion overflows or underflows, i.e. the
\* canonical value and the value read back are normal numbers.
C1_RoundTrip ==
    (IsRoundTrip /\ (IsZero(raw) \/ (IsNormal(Val(a)) /\ IsNormal(acc.value))))
        => WithinTol(acc.value, raw)

\* A round trip through a non-canonical unit whose result is rounded (it
\* differs from the input) yet within tolerance.
C1_Witness ==
    /\ IsRoundTrip
    /\ IsNormal(Val(a)) /\ IsNormal(acc.value)
    /\ ctor.unit = "degrees"
    /\ acc.value # raw
    /\ WithinTol(acc.value, raw)

\* The last call made.
LastOp == IF steps = <<>> THEN "-" ELSE steps[Len(steps)].op

(***************************************************************************)
(* SpecKinds: quantities of any kinds are at hand and every call that      *)
(* type-checks on them may be made.                                        *)
(***************************************************************************)
\* One quantity of each kind (values of the examples).
KindSamples ==
    { Length_from("kilometers", Lit[400, 1]), Velocity_from("meters_per_second", Lit[7800, 1], NoF),
      Mass_from("tonnes", Lit[131, 1]), Force_from("newtons", Lit[6770000, 1]),
      Pressure_sea_level, Angle_from("degrees", Lit[45, 1]),
      MassFlowRate_from("kg_per_s", Lit[2578, 1]), SpecificImpulse_from("seconds", Lit[263, 1]) }

KindsInit ==
    InitWith({NoF}, KindSamples, KindSamples \cup {F64(Lit[2, 1])},
             {NoQ, Mass_from("tonnes", Lit[2290, 1]), SpecificImpulse_from("seconds", Lit[300, 1])})

BinaryOps == {"add", "sub", "mul", "div", "eq", "lt", "specific_impulse"}

KindsNext ==
    \/ \E op \in BinaryOps : \E name \in {"a", "b", "c"} : Binary(op, name)
    \/ \E name \in {"a", "b", "c"} : ScaleBy(name)
    \/ \E u \in AsUnits(a.kind) : \E aux \in AuxFor(u) : AsUnit(u, aux)
    \/ DeltaV

SpecKinds == KindsInit /\ [][KindsNext]_vars

\* The call s combines or converts within one kind: same-kind operands for
\* + - == < and the ratio, an f64 factor for * and /, an accessor to f64.
WithinOneKind(s) ==
    \/ s.op \in {"add", "sub"} /\ s.rhs = s.lhs /\ s.out = s.lhs
    \/ s.op \in {"eq", "lt"} /\ s.rhs = s.lhs /\ s.out = "bool"
    \/ s.op \in {"mul", "div"} /\ s.rhs = "f64" /\ s.out = s.lhs
    \/ s.op = "div" /\ s.rhs = s.lhs /\ s.out = "f64"
    \/ s.op = "as" /\ s.rhs = "-" /\ s.out = "f64"

\* The two calls that cross kinds, each in its one direction.
CrossesKinds(s) ==
    \/ /\ s.op = "specific_impulse"
       /\ s.lhs = "Force" /\ s.rhs = "MassFlowRate" /\ s.out = "SpecificImpulse"
    \/ /\ s.op = "calculate_delta_v"
       /\ s.lhs = "SpecificImpulse" /\ s.rhs = "Mass" /\ s.third = "Mass" /\ s.out = "Velocity"

\* C2: every call made adds, subtracts, compares, scales or converts within
\* one kind, except specific_impulse (Force, MassFlowRate -> SpecificImpulse)
\* and delta_v (SpecificImpulse, Mass, Mass -> Velocity), each only in that
\* direction.
C2_KindSeparation ==
    \A i \in 1..Len(steps) :
        /\ steps[i].lhs \in Kinds
        /\ WithinOneKind(steps[i]) \/ CrossesKinds(steps[i])

\* A Force and a MassFlowRate were combined into a SpecificImpulse, which was
\* then compared with another SpecificImpulse.
C2_Witness ==
    /\ Len(steps) = 2
    /\ steps[1].op = "specific_impulse" /\ a.kind = "Force" /\ b.kind = "MassFlowRate"
    /\ steps[2].op = "lt" /\ steps[2].lhs = "SpecificImpulse"
    /\ acc.kind = "bool"

(***************************************************************************)
(* SpecRocket: the rocket calculations.  Either a thrust and a mass flow   *)
(* are at hand (specific impulse), or a specific impulse, a wet mass and a *)
(* dry mass (delta-v).                                                     *)
(***************************************************************************)
Thrusts ==
    { Force_from("newtons", Lit[6770000, 1]), Force_from("kilonewtons", Lit[6770, 1]),
      Force_from("meganewtons", Lit[228, 100]), Force_from("pounds_force", Lit[1500000, 1]),
      Force_from("newtons", Lit[1, 1]), Force_from("newtons", Zero(0)),
      Force_from("newtons", Lit[-1000, 1]), Force_from("newtons", MaxFinite),
      Force_from("newtons", Inf(0)), Force_from("newtons", NaN) }

MassFlows ==
    { MassFlowRate_from("kg_per_s", Lit[2578, 1]), MassFlowRate_from("kg_per_s", Lit[5145, 10]),
      MassFlowRate_from("kg_per_min", Lit[154680, 1]), MassFlowRate_from("lb_per_s", Lit[1000, 1]),
      MassFlowRate_from("kg_per_s", Zero(0)), MassFlowRate_from("kg_per_s", Lit[-5, 1]),
      MassFlowRate_from("kg_per_s", MinNormal), MassFlowRate_from("kg_per_s", Inf(0)),
      MassFlowRate_from("kg_per_s", NaN) }

Impulses ==
    { SpecificImpulse_from("seconds", Lit[263, 1]), SpecificImpulse_from("seconds", Lit[300, 1]),
      SpecificImpulse_from("seconds", Lit[452, 1]), SpecificImpulse_from("exhaust_velocity", Lit[2942, 1]),
      SpecificImpulse_from("seconds", Zero(0)), SpecificImpulse_from("seconds", Lit[-1, 1]),
      SpecificImpulse_from("seconds", Inf(0)), SpecificImpulse_from("seconds", NaN) }

WetMasses ==
    { Mass_from("tonnes", Lit[2290, 1]), Mass_from("tonnes", Lit[2970, 1]),
      Mass_from("kilograms", Lit[1000, 1]), Mass_from("pounds", Lit[5000, 1]),
      Mass_from("kilograms", Zero(0)), Mass_from("kilograms", Lit[-1, 1]),
      Mass_from("kilograms", MaxFinite), Mass_from("kilograms", Inf(0)),
      Mass_from("kilograms", NaN) }

DryMasses ==
    { Mass_from("tonnes", Lit[131, 1]), Mass_from("tonnes", Lit[130, 1]),
      Mass_from("kilograms", Lit[1000, 1]), Mass_from("kilograms", Zero(0)),
      Mass_from("kilograms", Lit[-2, 1]), Mass_from("kilograms", MinSubnormal),
      Mass_from("kilograms", Inf(0)), Mass_from("kilograms", NaN) }

RocketInit ==
    /\ raw = NoF
    /\ ctor = NoCtor
    /\ \/ a \in Thrusts /\ b \in MassFlows /\ c = NoQ
       \/ a \in Impulses /\ b \in WetMasses /\ c \in DryMasses
    /\ acc = NoQ
    /\ steps = <<>>

RocketNext ==
    \/ Binary("specific_impulse", "b")
    \/ DeltaV

SpecRocket == RocketInit /\ [][RocketNext]_vars

\* |x - v| <= d
Near(x, v, d) == FLe(FAbs[FSub[x, v]], d)

\* acc is a.specific_impulse(b)
IsSpecificImpulse == Len(steps) = 1 /\ LastOp = "specific_impulse"

\* acc is calculate_delta_v(a, b, c)
IsDeltaV == Len(steps) = 1 /\ LastOp = "calculate_delta_v"

\* C3: for every thrust F and mass flow mdot,
\* F.specific_impulse(mdot).as_seconds() is F.as_newtons() /
\* (mdot.as_kg_per_s() * 9.80665); 6,770,000 N and 2578 kg/s give 268 s
\* within 5 s.
C3_SpecificImpulseFormula ==
    IsSpecificImpulse =>
        /\ SpecificImpulse_as(acc, "seconds")
               = FDiv[Force_as(a, "newtons"),
                      FMul[MassFlowRate_as(b, "kg_per_s"), Lit[980665, 100000]]]
        /\ (a = Force_from("newtons", Lit[6770000, 1])
                /\ b = MassFlowRate_from("kg_per_s", Lit[2578, 1]))
               => Near(SpecificImpulse_as(acc, "seconds"), Lit[268, 1], Lit[5, 1])

\* The F-1 engine: 6,770,000 N at 2578 kg/s, a specific impulse just under
\* 268 s.
C3_Witness ==
    /\ IsSpecificImpulse
    /\ a = Force_from("newtons", Lit[6770000, 1])
    /\ b = MassFlowRate_from("kg_per_s", Lit[2578, 1])
    /\ FLt(SpecificImpulse_as(acc, "seconds"), Lit[268, 1])
    /\ FGt(SpecificImpulse_as(acc, "seconds"), Lit[267, 1])

\* C4: calculate_delta_v(isp, wet_mass, dry_mass) is the Velocity whose m/s
\* value is isp.as_exhaust_velocity() * ln(wet_mass / dry_mass), the ratio
\* being Mass / Mass on kilograms, for all inputs alike.
C4_DeltaVFormula ==
    IsDeltaV =>
        /\ acc.kind = "Velocity"
        /\ Velocity_as(acc, "meters_per_second", NoF)
               = FMul[SpecificImpulse_as(a, "exhaust_velocity"), FLn[Quantity_ratio(b, c)]]

\* A delta-v of a stage given in tonnes and pounds: finite, positive.
C4_Witness ==
    /\ IsDeltaV
    /\ b = Mass_from("tonnes", Lit[2970, 1])
    /\ c = Mass_from("kilograms", Lit[1000, 1])
    /\ a = SpecificImpulse_from("exhaust_velocity", Lit[2942, 1])
    /\ IsFinite(Val(acc)) /\ FGt(Val(acc), Lit[20000, 1])

\* The Saturn V S-IC stage: 2290 t wet, 131 t dry, Isp 263 s.
IsSaturnV ==
    /\ IsDeltaV
    /\ a = SpecificImpulse_from("seconds", Lit[263, 1])
    /\ b = Mass_from("tonnes", Lit[2290, 1])
    /\ c = Mass_from("tonnes", Lit[131, 1])

\* C5 as stated: the Saturn V S-IC delta-v, 263 * 9.80665 * ln(2290 / 131),
\* is 7304 m/s within 50 m/s.
C5_SaturnV7304 ==
    IsSaturnV => Near(Velocity_as(acc, "meters_per_second", NoF), Lit[7304, 1], Lit[50, 1])

\* C5 amended: the Saturn V S-IC delta-v, 263 * 9.80665 * ln(2290 / 131),
\* is 7379 m/s within 50 m/s (within 1 m/s, in fact).
C5_SaturnV ==
    IsSaturnV => Near(Velocity_as(acc, "meters_per_second", NoF), Lit[7379, 1], Lit[1, 1])

\* The Saturn V S-IC delta-v has been computed.
C5_Witness ==
    IsSaturnV /\ IsFinite(Val(acc)) /\ FGt(Val(acc), Lit[7354, 1])

(***************************************************************************)
(* SpecAngle: an Angle is built from radians or degrees and normalised,    *)
(* up to MaxSteps times.                                                   *)
(***************************************************************************)
\* 2.0 * PI, one full turn, as the crate computes it.
TwoPi == FMul[Lit[2, 1], PI]

AngleInputs ==
    { Zero(0), Zero(1), FNeg[MinSubnormal], FNeg[MinNormal], MinNormal, Lit[-1, 1000000000],
      PI, FNeg[PI], TwoPi, FNeg[TwoPi], FMul[Lit[3, 1], PI],
      Fin(0, PI.m - 1, PI.e), Fin(1, PI.m + 1, PI.e), Fin(0, TwoPi.m - 1, TwoPi.e),
      Lit[1, 1], Lit[-1, 1], Lit[4, 1], Lit[-7, 1], Lit[100, 1], Lit[-1000000, 1],
      Lit[450, 1], Lit[-90, 1], Lit[90, 1], Lit[270, 1], Lit[190, 1], Lit[180, 1],
      Lit[-180, 1], Lit[360, 1], Lit[-360, 1], Lit[720, 1], Lit[350, 1],
      MaxFinite, FNeg[MaxFinite], Inf(0), Inf(1), NaN }

AngleInit == InitWith(AngleInputs, {NoQ}, {NoQ}, {NoQ})

AngleNext ==
    \/ \E u \in {"radians", "degrees"} : FromUnit("Angle", u, NoF)
    \/ Normalize
    \/ NormalizeSigned

SpecAngle == AngleInit /\ [][AngleNext]_vars

\* x and y differ by a whole number of turns, up to 1e-4 of a turn: their
\* remainders modulo 2 pi differ by about 0 or about one turn.
Congruent(x, y) ==
    LET d   == FAbs[FSub[FRem[x, TwoPi], FRem[y, TwoPi]]]
        tol == FMul[TwoPi, Lit[1, 10000]]
    IN  FLe(d, tol) \/ FLe(FAbs[FSub[d, TwoPi]], tol)

\* C6, for the finite angles it covers: a.normalize().as_radians() is
\* >= 0 and strictly less than 2 pi.
C6_NormalizeRange ==
    (LastOp = "normalize" /\ IsFinite(Val(a)))
        => (FGe(Angle_as(acc, "radians"), Lit[0, 1]) /\ FLt(Angle_as(acc, "radians"), TwoPi))

\* C7 as stated: for every Angle a, a.normalize_signed().as_radians() is
\* >= -pi and strictly less than pi.
C7_SignedRangeAll ==
    LastOp = "normalize_signed"
        => (FGe(Angle_as(acc, "radians"), FNeg[PI]) /\ FLt(Angle_as(acc, "radians"), PI))

\* C7 amended: for every finite Angle a, a.normalize_signed().as_radians()
\* is >= -pi and strictly less than pi.
C7_SignedRange ==
    (LastOp = "normalize_signed" /\ IsFinite(Val(a)))
        => (FGe(Angle_as(acc, "radians"), FNeg[PI]) /\ FLt(Angle_as(acc, "radians"), PI))

\* normalize_signed of an angle of exactly pi radians: wrapped to -pi.
C7_Witness ==
    /\ steps # <<>> /\ Len(steps) = 1 /\ LastOp = "normalize_signed"
    /\ Val(a) = PI
    /\ Val(acc) = FNeg[PI]

\* acc is a.normalize() for the angle a built from raw in unit u.
NormalizeOf(u, x) ==
    /\ Len(steps) = 1 /\ LastOp = "normalize"
    /\ ctor.unit = u /\ raw = x

\* C8 as stated: for every Angle a, a.normalize() differs from a by a whole
\* number of turns; from_degrees(450) normalises to 90 degrees and
\* from_degrees(-90) to 270 degrees.
C8_WraparoundAll ==
    /\ (Len(steps) = 1 /\ LastOp = "normalize") => Congruent(Val(acc), Val(a))
    /\ NormalizeOf("degrees", Lit[450, 1]) => WithinTol(Angle_as(acc, "degrees"), Lit[90, 1])
    /\ NormalizeOf("degrees", Lit[-90, 1]) => WithinTol(Angle_as(acc, "degrees"), Lit[270, 1])

\* C8 amended: for every finite Angle a, a.normalize() differs from a by a
\* whole number of turns (within 1e-4 of a turn); from_degrees(450)
\* normalises to 90 degrees and from_degrees(-90) to 270 degrees (within 1e-4).
C8_Wraparound ==
    /\ (Len(steps) = 1 /\ LastOp = "normalize" /\ IsFinite(Val(a)))
           => Congruent(Val(acc), Val(a))
    /\ NormalizeOf("degrees", Lit[450, 1]) => WithinTol(Angle_as(acc, "degrees"), Lit[90, 1])
    /\ NormalizeOf("degrees", Lit[-90, 1]) => WithinTol(Angle_as(acc, "degrees"), Lit[270, 1])

\* from_degrees(-90).normalize(): the correction step was taken and the
\* result is 270 degrees.
C8_Witness ==
    /\ NormalizeOf("degrees", Lit[-90, 1])
    /\ WithinTol(Angle_as(acc, "degrees"), Lit[270, 1])
    /\ Val(acc) # Val(a)

(***************************************************************************)
(* SpecArith: two quantities of one kind are combined with + - / and the   *)
(* ratio is used to scale one of them again.                               *)
(***************************************************************************)
\* The unit a kind stores its value in.
CanonicalUnit(k) ==
    CASE k = "Length" -> "meters"
      [] k = "Velocity" -> "meters_per_second"
      [] k = "Mass" -> "kilograms"
      [] k = "Force" -> "newtons"
      [] k = "Pressure" -> "pascals"
      [] k = "Angle" -> "radians"
      [] k = "MassFlowRate" -> "kg_per_s"
      [] k = "SpecificImpulse" -> "seconds"

ArithInputs ==
    { Zero(0), Lit[1, 1], Lit[-3, 1], Lit[10005, 10], Lit[1, 1000],
      MaxFinite, MinNormal, MinSubnormal, Inf(0), NaN }

ArithQuantities(k) == {Construct(k, CanonicalUnit(k), v, NoF) : v \in ArithInputs}

ArithInit ==
    /\ raw = NoF
    /\ ctor = NoCtor
    /\ \E k \in Kinds : a \in ArithQuantities(k) /\ b \in ArithQuantities(k)
    /\ c = NoQ
    /\ acc = NoQ
    /\ steps = <<>>

ArithNext ==
    \/ \E op \in {"add", "sub", "div"} : \E name \in {"a", "b"} : Binary(op, name)
    \/ \E name \in {"a", "b"} : ScaleBy(name)

SpecArith == ArithInit /\ [][ArithNext]_vars

\* acc is (a + b) - b
IsAddThenSub ==
    /\ Len(steps) = 2
    /\ steps[1].op = "add" /\ steps[1].operand = "b"
    /\ steps[2].op = "sub" /\ steps[2].operand = "b"

\* acc is a - a
IsSelfDifference == Len(steps) = 1 /\ steps[1].op = "sub" /\ steps[1].operand = "a"

\* acc is (a / b) * b, the ratio a / b being an f64
IsRatioThenScale ==
    /\ Len(steps) = 2
    /\ steps[1].op = "div" /\ steps[1].operand = "b" /\ steps[1].out = "f64"
    /\ steps[2].op = "mul" /\ steps[2].operand = "b" /\ steps[2].rhs = "f64"

\* acc is a / a
IsSelfRatio == Len(steps) = 1 /\ steps[1].op = "div" /\ steps[1].operand = "a"

\* The larger of |x| and |y|.
MaxAbs(x, y) == IF FLt(FAbs[x], FAbs[y]) THEN FAbs[y] ELSE FAbs[x]

\* C9 as stated: for all a, b of one kind, (a + b) - b equals a within
\* tolerance (relative 1e-4), and a - a is the zero of the kind.
C9_AdditiveInverseAll ==
    /\ IsAddThenSub => (acc.kind = a.kind /\ WithinTol(Val(acc), Val(a)))
    /\ IsSelfDifference => (acc.kind = a.kind /\ FEq(Val(acc), Zero(0)))

\* C9 amended: for all finite a, b of one kind whose sum is finite,
\* (a + b) - b equals a within 1e-4 of the larger of |a| and |b|, and
\* a - a is the zero of the kind for every finite a.
C9_AdditiveInverse ==
    /\ (IsAddThenSub /\ IsFinite(Val(a)) /\ IsFinite(Val(b)) /\ IsFinite(FAdd[Val(a), Val(b)]))
           => /\ acc.kind = a.kind
              /\ FLe(FMul[FAbs[FSub[Val(acc), Val(a)]], Lit[10000, 1]], MaxAbs(Val(a), Val(b)))
    /\ (IsSelfDifference /\ IsFinite(Val(a)))
           => (acc.kind = a.kind /\ FEq(Val(acc), Zero(0)))

\* (0.001 + 1) - 1: the sum is rounded, so the result is not 0.001 itself
\* but within 1e-4 of the larger operand of it.
C9_Witness ==
    /\ IsAddThenSub
    /\ Val(a) = Lit[1, 1000] /\ Val(b) = Lit[1, 1]
    /\ Val(acc) # Val(a)
    /\ FLe(FMul[FAbs[FSub[Val(acc), Val(a)]], Lit[10000, 1]], MaxAbs(Val(a), Val(b)))

\* C10 as stated: for all a, b of one kind with b nonzero, (a / b) * b
\* equals a within tolerance (relative 1e-4), and a / a is 1.0 for every
\* nonzero a.
C10_RatioConsistencyAll ==
    /\ (IsRatioThenScale /\ ~IsZero(Val(b)))
           => (acc.kind = a.kind /\ WithinTol(Val(acc), Val(a)))
    /\ (IsSelfRatio /\ ~IsZero(Val(a))) => acc = F64(Lit[1, 1])

\* C10 amended: for all finite a, b of one kind that has the ratio, b
\* nonzero, if a / b neither overflows nor underflows (it is zero or a
\* normal number) and (a / b) * b is finite, then (a / b) * b equals a
\* within relative 1e-4; and a / a is 1.0 for every finite nonzero a.
C10_RatioConsistency ==
    /\ (/\ IsRatioThenScale
        /\ IsFinite(Val(a)) /\ IsFinite(Val(b)) /\ ~IsZero(Val(b))
        /\ IsZero(Val(a)) \/ IsNormal(Quantity_ratio(a, b))
        /\ IsFinite(Val(acc)))
           => (acc.kind = a.kind /\ WithinTol(Val(acc), Val(a)))
    /\ (IsSelfRatio /\ IsFinite(Val(a)) /\ ~IsZero(Val(a))) => acc = F64(Lit[1, 1])

\* (1 / -3) * -3: the ratio is the f64 nearest to -1/3, the product is 1
\* within tolerance.
C10_Witness ==
    /\ IsRatioThenScale
    /\ Val(a) = Lit[1, 1] /\ Val(b) = Lit[-3, 1]
    /\ Quantity_ratio(a, b) = Lit[-1, 3]
    /\ WithinTol(Val(acc), Val(a))

(***************************************************************************)
(* SpecScale: a quantity is scaled by an f64 (b) with * and /, and divided *)
(* by a quantity of its kind (c).                                          *)
(***************************************************************************)
Scalars ==
    { Lit[2, 1], Lit[-3, 1], Lit[1, 10], Lit[1, 1000000], MaxFinite, MinSubnormal,
      Zero(0), Zero(1), Inf(0), NaN }

ScaleInputs ==
    { Zero(0), Zero(1), Lit[1, 1], Lit[-7, 2], Lit[10005, 10], MaxFinite, MinNormal,
      FNeg[MinSubnormal], Inf(1), NaN }

Divisors == { Zero(0), Zero(1), Lit[3, 1] }

ScaleInit ==
    /\ raw = NoF
    /\ ctor = NoCtor
    /\ \E k \in Kinds :
          /\ a \in {Construct(k, CanonicalUnit(k), v, NoF) : v \in ScaleInputs}
          /\ c \in {Construct(k, CanonicalUnit(k), v, NoF) : v \in Divisors}
    /\ b \in {F64(s) : s \in Scalars}
    /\ acc = NoQ
    /\ steps = <<>>

ScaleNext ==
    \/ \E op \in {"mul", "div"} : Binary(op, "b")
    \/ Binary("div", "c")

SpecScale == ScaleInit /\ [][ScaleNext]_vars

\* acc is a * b, b an f64
IsScaled == Len(steps) = 1 /\ steps[1].op = "mul" /\ steps[1].operand = "b"

\* acc is a / b, b an f64
IsUnscaled == Len(steps) = 1 /\ steps[1].op = "div" /\ steps[1].operand = "b"

\* acc is (a * b) / b, b an f64
IsScaleThenUnscale ==
    /\ Len(steps) = 2
    /\ steps[1].op = "mul" /\ steps[1].operand = "b"
    /\ steps[2].op = "div" /\ steps[2].operand = "b"

\* C11 as stated: for every quantity a and every nonzero scalar s,
\* (a * s) / s equals a (read with the relative tolerance 1e-4 of the other
\* properties; it fails the more if read as exact equality).
C11_ScaleConsistencyAll ==
    (IsScaleThenUnscale /\ ~IsZero(b.value))
        => (acc.kind = a.kind /\ WithinTol(Val(acc), Val(a)))

\* C11 amended: for every finite quantity a of any kind and every finite
\* nonzero scalar s, if a * s neither overflows nor underflows (it is a
\* normal number, or zero for a zero) and (a * s) / s is finite, then
\* (a * s) / s equals a within relative 1e-4; a * s and a / s have a's kind
\* and the canonical value multiplied, respectively divided, by s.
C11_ScaleConsistency ==
    /\ (/\ IsScaleThenUnscale
        /\ IsFinite(Val(a)) /\ IsFinite(b.value) /\ ~IsZero(b.value)
        /\ IsZero(Val(a)) \/ IsNormal(FMul[Val(a), b.value])
        /\ IsFinite(Val(acc)))
           => (acc.kind = a.kind /\ WithinTol(Val(acc), Val(a)))
    /\ IsScaled => acc = Mk(a.kind, FMul[Val(a), b.value])
    /\ IsUnscaled => acc = Mk(a.kind, FDiv[Val(a), b.value])

\* (1000.5 * 0.1) / 0.1: both operations round, the result is 1000.5 within
\* tolerance.
C11_Witness ==
    /\ IsScaleThenUnscale
    /\ Val(a) = Lit[10005, 10] /\ b.value = Lit[1, 10]
    /\ Val(acc) # Zero(0)
    /\ WithinTol(Val(acc), Val(a))

(***************************************************************************)
(* The ratio of two quantities of one kind, under SpecArith.               *)
(***************************************************************************)
\* acc is a / b
IsRatio == Len(steps) = 1 /\ steps[1].op = "div" /\ steps[1].operand = "b"

\* C12 as stated: for each of the eight kinds, a / b is defined for a, b of
\* that kind and is the f64 ratio of their canonical values.
C12_RatioAllKinds ==
    /\ (a.kind \in Kinds /\ b.kind = a.kind) => HasImpl("div", a, b)
    /\ IsRatio => acc = F64(FDiv[Val(a), Val(b)])

\* C12 amended: for each of Length, Velocity, Mass, Force, Pressure and
\* Angle, a / b is defined for a, b of that kind and is the f64 ratio of
\* their canonical values; MassFlowRate and SpecificImpulse have no ratio.
C12_Ratio ==
    /\ (a.kind \in {"Length", "Velocity", "Mass", "Force", "Pressure", "Angle"} /\ b.kind = a.kind)
           => HasImpl("div", a, b)
    /\ (a.kind \in {"MassFlowRate", "SpecificImpulse"} /\ b.kind = a.kind)
           => ~HasImpl("div", a, b)
    /\ IsRatio => acc = F64(FDiv[Val(a), Val(b)])

\* An Angle of 1000.5 rad over one of -3 rad: the f64 -333.5.
C12_Witness ==
    /\ IsRatio
    /\ a = Angle_from("radians", Lit[10005, 10]) /\ b = Angle_from("radians", Lit[-3, 1])
    /\ acc = F64(Lit[-3335, 10])

(***************************************************************************)
(* SpecPositive: a quantity is built from a raw f64 in any unit and asked  *)
(* whether it is positive.                                                 *)
(***************************************************************************)
PositiveInputs ==
    { Zero(0), Zero(1), Lit[1, 1], Lit[-1, 1], Lit[1, 1000], Lit[-27315, 100],
      MinSubnormal, FNeg[MinSubnormal], MaxFinite, FNeg[MaxFinite], Inf(0), Inf(1), NaN }

PositiveInit == InitWith(PositiveInputs, {NoQ}, {NoQ}, {NoQ})

PositiveNext ==
    \/ \E k \in Kinds : \E u \in Units(k) : \E aux \in AuxFor(u) : FromUnit(k, u, aux)
    \/ IsPositive

SpecPositive == PositiveInit /\ [][PositiveNext]_vars

\* acc is a.is_positive()
IsPositiveCall == Len(steps) = 1 /\ steps[1].op = "is_positive"

\* x > 0 read off the datum: not NaN, sign bit clear, not a zero.
StrictlyPositive(x) == x.c \in {"fin", "inf"} /\ x.s = 0 /\ ~(x.c = "fin" /\ x.m = 0)

\* C13 as stated: every one of the eight kinds has is_positive, it is true
\* exactly when the canonical value is > 0, and a constructor returns a
\* quantity also for a raw value that is not positive.
C13_PositivityAllKinds ==
    /\ (a.kind \in Kinds /\ steps = <<>>) => ENABLED IsPositive
    /\ IsPositiveCall => acc = Bool(StrictlyPositive(Val(a)))
    /\ (ctor # NoCtor /\ ~StrictlyPositive(raw))
           => (a.kind = ctor.kind /\ ~StrictlyPositive(Val(a)))

\* C13 amended: each of the seven kinds other than Angle has is_positive
\* (Angle has none), it is true exactly when the canonical value is > 0, and
\* a constructor returns a quantity also for a raw value that is not
\* positive.
C13_Positivity ==
    /\ (a.kind \in Kinds \ {"Angle"} /\ steps = <<>>) => ENABLED IsPositive
    /\ a.kind = "Angle" => ~ENABLED IsPositive
    /\ IsPositiveCall => acc = Bool(StrictlyPositive(Val(a)))
    /\ (ctor # NoCtor /\ ~StrictlyPositive(raw))
           => (a.kind = ctor.kind /\ ~StrictlyPositive(Val(a)))

\* Mass::from_pounds(-1.0) is built, and is_positive() is false on it.
C13_Witness ==
    /\ IsPositiveCall
    /\ ctor.kind = "Mass" /\ ctor.unit = "pounds" /\ raw = Lit[-1, 1]
    /\ FLt(Val(a), Zero(0))
    /\ acc = Bool(FALSE)

(***************************************************************************)
(* SpecZeroDiv: a quantity is built from a raw f64, which may be infinite  *)
(* or NaN, and divided by an f64 (b) or by a quantity of its kind (c),     *)
(* which may be zero.                                                      *)
(***************************************************************************)
ZeroDivInputs ==
    { Zero(0), Zero(1), Lit[1, 1], Lit[-5, 2], MinSubnormal, Inf(0), Inf(1), NaN }

ZeroDivisors == { Zero(0), Zero(1), Lit[2, 1] }

ZeroDivInit ==
    /\ raw \in ZeroDivInputs
    /\ ctor = NoCtor
    /\ a = NoQ
    /\ b \in {F64(s) : s \in ZeroDivisors}
    /\ \E k \in Kinds : c \in {Construct(k, CanonicalUnit(k), v, NoF) : v \in ZeroDivisors}
    /\ acc = NoQ
    /\ steps = <<>>

ZeroDivNext ==
    \/ \E k \in Kinds : \E u \in Units(k) : \E aux \in AuxFor(u) : FromUnit(k, u, aux)
    \/ Binary("div", "b")
    \/ Binary("div", "c")

SpecZeroDiv == ZeroDivInit /\ [][ZeroDivNext]_vars

\* acc is a / b, b a zero f64
IsDivByZeroScalar ==
    /\ Len(steps) = 1 /\ steps[1].op = "div" /\ steps[1].operand = "b"
    /\ b.value.c = "fin" /\ b.value.m = 0

\* acc is a / c, c a zero-valued quantity of a's kind
IsDivByZeroQuantity ==
    /\ Len(steps) = 1 /\ steps[1].op = "div" /\ steps[1].operand = "c"
    /\ Val(c).c = "fin" /\ Val(c).m = 0

\* x / z for a zero z in IEEE 754: NaN for a zero or NaN x, otherwise the
\* infinity whose sign is the product of the signs.
OverZero(x, z) ==
    IF x.c = "nan" \/ (x.c = "fin" /\ x.m = 0) THEN [c |-> "nan", s |-> 0, m |-> 0, e |-> 0]
    ELSE [c |-> "inf", s |-> (x.s + z.s) % 2, m |-> 0, e |-> 0]

\* C14: a / 0.0 is a quantity of a's kind and a / c, for a zero-valued c of
\* a's kind, is an f64; either is infinite, or NaN for 0/0 (and for a NaN a),
\* as in f64 division; a constructor handed an infinity or a NaN returns a
\* quantity whose value is infinite or NaN.
C14_NoErrorOutcome ==
    /\ IsDivByZeroScalar => acc = Mk(a.kind, OverZero(Val(a), b.value))
    /\ IsDivByZeroQuantity => acc = F64(OverZero(Val(a), Val(c)))
    /\ (ctor # NoCtor /\ raw.c \in {"inf", "nan"})
           => (a.kind = ctor.kind /\ Val(a).c \in {"inf", "nan"})

\* Mass::from_tonnes(-2.5) / -0.0 is a Mass of +infinity kilograms.
C14_Witness ==
    /\ IsDivByZeroScalar
    /\ ctor.kind = "Mass" /\ ctor.unit = "tonnes" /\ raw = Lit[-5, 2] /\ b.value = Zero(1)
    /\ acc = Mk("Mass", Inf(0))

(***************************************************************************)
(* Degenerate inputs of the two cross-kind formulas, under SpecRocket.     *)
(***************************************************************************)
\* acc is a.specific_impulse(b) for a zero mass flow b
IsZeroFlowImpulse == IsSpecificImpulse /\ Val(b).c = "fin" /\ Val(b).m = 0

\* C15 as stated: for every thrust, specific_impulse with a zero mass flow
\* is an infinite SpecificImpulse.
C15_ZeroFlowInfiniteAll ==
    IsZeroFlowImpulse => (acc.kind = "SpecificImpulse" /\ Val(acc).c = "inf")

\* C15 amended: for every thrust other than zero and NaN, specific_impulse
\* with a zero mass flow is an infinite SpecificImpulse, of the thrust's
\* sign over that of the zero; for a zero or NaN thrust it is a NaN
\* SpecificImpulse.
C15_ZeroFlowInfinite ==
    IsZeroFlowImpulse =>
        /\ acc.kind = "SpecificImpulse"
        /\ (Val(a).c = "nan" \/ (Val(a).c = "fin" /\ Val(a).m = 0)) => Val(acc).c = "nan"
        /\ ~(Val(a).c = "nan" \/ (Val(a).c = "fin" /\ Val(a).m = 0))
               => (Val(acc).c = "inf" /\ Val(acc).s = (Val(a).s + Val(b).s) % 2)

\* A thrust of -1000 N at zero mass flow: -infinity seconds.
C15_Witness ==
    /\ IsZeroFlowImpulse
    /\ a = Force_from("newtons", Lit[-1000, 1])
    /\ acc = SpecificImpulse_from("seconds", Inf(1))

\* wet_mass <= dry_mass, as Mass <= Mass
WetAtMostDry == FLe(Val(b), Val(c))

\* C16 as stated: with no constraint on the inputs, the delta-v is zero or
\* negative whenever wet_mass <= dry_mass, exactly zero when they are equal,
\* and infinite whenever dry_mass is zero.
C16_DegenerateMassesAll ==
    IsDeltaV =>
        /\ WetAtMostDry => FLe(Val(acc), Zero(0))
        /\ FEq(Val(b), Val(c)) => IsZero(Val(acc))
        /\ IsZero(Val(c)) => IsInf(Val(acc))

\* C16 amended: for a specific impulse that is positive with a finite
\* exhaust velocity, the delta-v is zero or negative whenever
\* 0 <= wet_mass <= dry_mass with dry_mass positive and finite, exactly zero
\* when wet_mass equals dry_mass; and it is infinite whenever dry_mass is
\* +0.0, wet_mass is positive and the specific impulse is neither zero nor
\* NaN.  The result is the formula's value in either case.
C16_DegenerateMasses ==
    IsDeltaV =>
        /\ acc.kind = "Velocity"
        /\ (/\ FGt(Val(a), Zero(0)) /\ IsFinite(SpecificImpulse_as(a, "exhaust_velocity"))
            /\ FGe(Val(b), Zero(0)) /\ FGt(Val(c), Zero(0)) /\ IsFinite(Val(c))
            /\ WetAtMostDry)
               => /\ FLe(Val(acc), Zero(0))
                  /\ FEq(Val(b), Val(c)) => IsZero(Val(acc))
        /\ (/\ Val(c) = Zero(0) /\ FGt(Val(b), Zero(0))
            /\ ~IsNaN(Val(a)) /\ ~IsZero(Val(a)))
               => (IsInf(Val(acc)) /\ Val(acc).s = Val(a).s)

\* A stage of 1000 kg "wet" and 131 t dry at 263 s: a finite negative
\* delta-v.
C16_Witness ==
    /\ IsDeltaV
    /\ a = SpecificImpulse_from("seconds", Lit[263, 1])
    /\ b = Mass_from("kilograms", Lit[1000, 1])
    /\ c = Mass_from("tonnes", Lit[131, 1])
    /\ IsFinite(Val(acc)) /\ FLt(Val(acc), Lit[-12000, 1])

(***************************************************************************)
(* SpecCompare: a quantity built from a raw f64 in any unit is compared    *)
(* with a quantity of its kind, or with itself.                            *)
(***************************************************************************)
CompareInputs ==
    { Zero(0), Zero(1), Lit[1, 1], Lit[-1, 1], Lit[1000, 1], MinSubnormal, Inf(1), NaN }

Comparands == { Zero(0), Lit[1, 1], Lit[1000, 1], FNeg[MaxFinite], Inf(0), NaN }

Comparisons == {"eq", "ne", "lt", "le", "gt", "ge"}

CompareInit ==
    /\ raw \in CompareInputs
    /\ ctor = NoCtor
    /\ a = NoQ
    /\ \E k \in Kinds : b \in {Construct(k, CanonicalUnit(k), v, NoF) : v \in Comparands}
    /\ c = NoQ
    /\ acc = NoQ
    /\ steps = <<>>

CompareNext ==
    \/ \E k \in Kinds : \E u \in Units(k) : \E aux \in AuxFor(u) : FromUnit(k, u, aux)
    \/ \E op \in Comparisons : \E name \in {"a", "b"} : Binary(op, name)

SpecCompare == CompareInit /\ [][CompareNext]_vars

\* acc is (a op other) for one of the six comparisons
IsComparison == Len(steps) = 1 /\ steps[1].op \in Comparisons

\* The order of two f64 data, read off their values: "un" if either is NaN,
\* "eq" for equal values (the two zeros are equal), otherwise by the
\* infinities and, for finite values, by the sign of the difference x - y.
Order(x, y) ==
    IF x.c = "nan" \/ y.c = "nan" THEN "un"
    ELSE IF x = y \/ (x.c = "fin" /\ y.c = "fin" /\ x.m = 0 /\ y.m = 0) THEN "eq"
    ELSE IF x.c = "inf" THEN (IF x.s = 1 THEN "lt" ELSE "gt")
    ELSE IF y.c = "inf" THEN (IF y.s = 1 THEN "gt" ELSE "lt")
    ELSE IF FSub[x, y].s = 1 THEN "lt" ELSE "gt"

\* The orders under which a comparison is true.
TrueUnder(op) ==
    CASE op = "eq" -> {"eq"}
      [] op = "ne" -> {"lt", "gt", "un"}
      [] op = "lt" -> {"lt"}
      [] op = "le" -> {"lt", "eq"}
      [] op = "gt" -> {"gt"}
      [] op = "ge" -> {"gt", "eq"}

\* C17: each of a == o, a != o, a < o, a <= o, a > o, a >= o, for o of a's
\* kind, is that comparison of the canonical values, whatever unit a was
\* built from; with a NaN on either side (a against itself included) only
\* != is true.
C17_ScalarOrder ==
    IsComparison =>
        /\ acc.kind = "bool"
        /\ acc.value <=> (Order(Val(a), Val(Operand(steps[1].operand))) \in TrueUnder(steps[1].op))
        /\ (IsNaN(Val(a)) \/ IsNaN(Val(Operand(steps[1].operand))))
               => (acc.value <=> steps[1].op = "ne")

\* Length::from_kilometers(1.0) == a Length of 1000 m.
C17_Witness ==
    /\ IsComparison
    /\ steps[1].op = "eq" /\ steps[1].operand = "b"
    /\ ctor.kind = "Length" /\ ctor.unit = "kilometers" /\ raw = Lit[1, 1]
    /\ b = Length_from("meters", Lit[1000, 1])
    /\ acc = Bool(TRUE)

(***************************************************************************)
(* SpecSub: two quantities of one kind are subtracted and the difference   *)
(* is asked whether it is positive.                                        *)
(***************************************************************************)
SubNext ==
    \/ \E name \in {"a", "b"} : Binary("sub", name)
    \/ IsPositive

SpecSub == ArithInit /\ [][SubNext]_vars

\* acc is a - b
IsDifference == Len(steps) = 1 /\ steps[1].op = "sub" /\ steps[1].operand = "b"

\* acc is (a - b).is_positive()
IsDifferencePositive ==
    /\ Len(steps) = 2
    /\ steps[1].op = "sub" /\ steps[1].operand = "b"
    /\ steps[2].op = "is_positive"

\* C18: for all a, b of one kind, a - b is the quantity of that kind whose
\* canonical value is the f64 difference, not clamped: it is negative
\* whenever a < b, and is_positive() of it is then false.
C18_NoClamping ==
    /\ IsDifference =>
          /\ acc = Mk(a.kind, FSub[Val(a), Val(b)])
          /\ FLt(Val(a), Val(b)) => (Val(acc).c \in {"fin", "inf"} /\ Val(acc).s = 1
                                      /\ ~(Val(acc).c = "fin" /\ Val(acc).m = 0))
    /\ (IsDifferencePositive /\ FLt(Val(a), Val(b))) => acc = Bool(FALSE)

\* A Mass of 1 kg minus one of 1000.5 kg is not positive.
C18_Witness ==
    /\ IsDifferencePositive
    /\ a = Mass_from("kilograms", Lit[1, 1]) /\ b = Mass_from("kilograms", Lit[10005, 10])
    /\ Quantity_sub(a, b) = Mass_from("kilograms", Lit[-9995, 10])
    /\ acc = Bool(FALSE)

(***************************************************************************)
(* SpecDisplay: a Force or a Pressure is built from a raw f64 in any of    *)
(* its units and rendered as text.                                         *)
(***************************************************************************)
DisplayInputs ==
    { Zero(0), Zero(1), Lit[1, 1], Lit[-1, 200], Lit[1, 8], Lit[99999, 100], Lit[-99999, 100],
      Lit[1000, 1], Lit[-1000, 1], Lit[5000, 1], Lit[-5000, 1], Lit[101325, 1],
      Lit[999999, 1], Lit[1000000, 1], Lit[-1000000, 1], Lit[6770000, 1], Lit[-6770000, 1],
      MinSubnormal, FNeg[MinNormal], Inf(0), Inf(1), NaN }

DisplayInit == InitWith(DisplayInputs, {NoQ}, {NoQ}, {NoQ})

DisplayNext ==
    \/ \E k \in ScaledDisplayKinds : \E u \in Units(k) : FromUnit(k, u, NoF)
    \/ Display

SpecDisplay == DisplayInit /\ [][DisplayNext]_vars

\* acc is a.to_string()
IsDisplayed == Len(steps) = 1 /\ steps[1].op = "to_string"

\* |x| >= t for the positive t, read off the data (false for a NaN x).
MagnitudeAtLeast(x, t) == Order([x EXCEPT !.s = 0], t) \in {"gt", "eq"}

\* C19: a Pressure is rendered in kPa whenever |pascals| >= 1000 and in Pa
\* otherwise, negative pressures included.
C19_PressureUnitByMagnitude ==
    (IsDisplayed /\ a.kind = "Pressure") =>
        /\ MagnitudeAtLeast(a.pascals, Lit[1000, 1]) => acc.unit = "kPa"
        /\ ~MagnitudeAtLeast(a.pascals, Lit[1000, 1]) => acc.unit = "Pa"

\* C20: a Force is rendered in exactly one unit, by magnitude: the value in
\* MN when |newtons| >= 1,000,000, in kN when 1,000 <= |newtons| < 1,000,000,
\* in N otherwise (a NaN included); the text has a "-" exactly when the
\* value's sign bit is set.
C20_ForceUnitByMagnitude ==
    (IsDisplayed /\ a.kind = "Force") =>
        /\ acc.unit \in {"MN", "kN", "N"}
        /\ acc.unit = "MN" <=> MagnitudeAtLeast(a.newtons, Lit[1000000, 1])
        /\ acc.unit = "kN" <=> (/\ MagnitudeAtLeast(a.newtons, Lit[1000, 1])
                                /\ ~MagnitudeAtLeast(a.newtons, Lit[1000000, 1]))
        /\ acc.number = Fmt2[CASE acc.unit = "MN" -> FDiv[a.newtons, Lit[1000000, 1]]
                               [] acc.unit = "kN" -> FDiv[a.newtons, Lit[1000, 1]]
                               [] acc.unit = "N" -> a.newtons]
        /\ ~IsNaN(a.newtons) => (acc.number.neg <=> a.newtons.s = 1)

\* Force::from_newtons(-6770000.0) is rendered "-6.77 MN".
C20_Witness ==
    /\ IsDisplayed
    /\ ctor.kind = "Force" /\ ctor.unit = "newtons" /\ raw = Lit[-6770000, 1]
    /\ acc = [kind |-> "String", unit |-> "MN",
              number |-> [neg |-> TRUE, int |-> <<6, 0>>, frac |-> 77]]

(***************************************************************************)
(* The unary methods: abs (Length, Velocity, Force, Angle), Neg and the    *)
(* trigonometric functions (Angle).                                        *)
(***************************************************************************)
\* Argument reduction of sin: r, strictly between -2 pi and 2 pi, is folded
\* to the angle of the same sine between -pi/2 and pi/2.
SinFold[r \in Float] ==
    IF FGt(r, FMul[Lit[3, 2], PI]) THEN FSub[r, TwoPi]
    ELSE IF FGt(r, FDiv[PI, Lit[2, 1]]) THEN FSub[PI, r]
    ELSE IF FGe(r, FNeg[FDiv[PI, Lit[2, 1]]]) THEN r
    ELSE IF FGe(r, FNeg[FMul[Lit[3, 2], PI]]) THEN FSub[FNeg[PI], r]
    ELSE FAdd[r, TwoPi]

\* The sine series of q, |q| <= pi/2, up to the term in q^11, where q2 is q * q.
SinPoly[q \in Float, q2 \in Float] ==
    FMul[q, FSub[Lit[1, 1], FMul[FDiv[q2, Lit[6, 1]],
            FSub[Lit[1, 1], FMul[FDiv[q2, Lit[20, 1]],
            FSub[Lit[1, 1], FMul[FDiv[q2, Lit[42, 1]],
            FSub[Lit[1, 1], FMul[FDiv[q2, Lit[72, 1]],
            FSub[Lit[1, 1], FDiv[q2, Lit[110, 1]]]]]]]]]]]]

\* f64::sin
FSin[x \in Float] ==
    IF ~IsFinite(x) THEN NaN
    ELSE The({ SinPoly[q, FMul[q, q]] : q \in {SinFold[FRem[x, TwoPi]]} })

\* f64::cos
FCos[x \in Float] ==
    IF ~IsFinite(x) THEN NaN
    ELSE FSin[FAdd[FRem[x, TwoPi], FDiv[PI, Lit[2, 1]]]]

\* The kinds that have the method m.
HasMethod(m, k) ==
    CASE m = "abs" -> k \in {"Length", "Velocity", "Force", "Angle"}
      [] m \in {"neg", "sin", "cos", "tan"} -> k = "Angle"
      [] OTHER -> FALSE

\* self.m(), for abs, sin, cos, tan; -self for neg.
ApplyUnary(m, self) ==
    CASE m = "abs" -> Mk(self.kind, FAbs[Val(self)])
      [] m = "neg" -> Mk(self.kind, FNeg[Val(self)])
      [] m = "sin" -> F64(FSin[Val(self)])
      [] m = "cos" -> F64(FCos[Val(self)])
      [] m = "tan" -> F64(FDiv[FSin[Val(self)], FCos[Val(self)]])

\* abs(&mut self), taking the absolute value in place.
SelfAfter_mut(m, self) == IF m = "abs" THEN ApplyUnary(m, self) ELSE self

\* The receiver after self.m(): abs, sin, cos and tan borrow &self and
\* neg takes a copy, so the quantity the method was called on is as before.
SelfAfter(m, self) == self

\* cur.m()
Unary(m) ==
    /\ Len(steps) < MaxSteps
    /\ cur # NoQ
    /\ HasMethod(m, cur.kind)
    /\ acc' = ApplyUnary(m, cur)
    /\ a' = IF steps = <<>> THEN SelfAfter(m, a) ELSE a
    /\ steps' = Append(steps, Step(m, "-", cur.kind, "-", "-", "-", NoF, acc'.kind))
    /\ UNCHANGED <<raw, ctor, b, c>>

(***************************************************************************)
(* SpecFrame: a quantity is built from a raw f64 while two others are at   *)
(* hand, and every operation on quantities may be applied, up to MaxSteps  *)
(* times.                                                                  *)
(***************************************************************************)
FrameInit ==
    InitWith({Lit[350, 1], Lit[-3, 1]}, {NoQ},
             (KindSamples \ {Angle_from("degrees", Lit[45, 1])})
                 \cup {Angle_from("degrees", Lit[20, 1])},
             {F64(Lit[2, 1]), MassFlowRate_from("kg_per_s", Lit[2578, 1])})

FrameNext ==
    \/ \E k \in Kinds : FromUnit(k, CanonicalUnit(k), NoF)
    \/ FromUnit("Angle", "degrees", NoF)
    \/ a # NoQ /\ \E u \in AsUnits(a.kind) : \E aux \in AuxFor(u) : AsUnit(u, aux)
    \/ \E op \in {"add", "sub", "mul", "div", "eq", "ne", "lt", "le", "gt", "ge",
                  "specific_impulse"} :
           \E name \in {"b", "c"} : Binary(op, name)
    \/ \E m \in {"abs", "neg", "sin", "cos", "tan"} : Unary(m)
    \/ Normalize
    \/ NormalizeSigned
    \/ IsPositive
    \/ Display

SpecFrame == FrameInit /\ [][FrameNext]_vars

\* acc is a + b or a - b for two Angles.
IsAngleSum(op) ==
    /\ Len(steps) = 1 /\ steps[1].op = op /\ steps[1].operand = "b"
    /\ a.kind = "Angle" /\ b.kind = "Angle"

\* C21: Angle addition and subtraction never wrap: the canonical radian
\* value of a + b is exactly the f64 sum of the two radian values and that
\* of a - b exactly their f64 difference, also outside [0, 2 pi) and
\* [-pi, pi); 350 degrees + 20 degrees is 370 degrees.
C21_SumsNeverWrap ==
    /\ IsAngleSum("add") => Angle_as(acc, "radians") = FAdd[Angle_as(a, "radians"), Angle_as(b, "radians")]
    /\ IsAngleSum("sub") => Angle_as(acc, "radians") = FSub[Angle_as(a, "radians"), Angle_as(b, "radians")]
    /\ (IsAngleSum("add") /\ ctor.unit = "degrees" /\ raw = Lit[350, 1]
            /\ b = Angle_from("degrees", Lit[20, 1]))
           => WithinTol(Angle_as(acc, "degrees"), Lit[370, 1])

\* from_degrees(350) + from_degrees(20): more than a full turn, 370 degrees.
C21_Witness ==
    /\ IsAngleSum("add") /\ ctor.unit = "degrees" /\ raw = Lit[350, 1]
    /\ b = Angle_from("degrees", Lit[20, 1])
    /\ FGt(Val(acc), TwoPi)
    /\ WithinTol(Angle_as(acc, "degrees"), Lit[370, 1])

(***************************************************************************)
(* The exhaust-velocity view of SpecificImpulse, under SpecConv.           *)
(***************************************************************************)
\* acc is a.as_U() for the SpecificImpulse a.
IsImpulseRead(u) ==
    /\ steps # <<>> /\ steps[1].op = "as" /\ steps[1].unit = u
    /\ a.kind = "SpecificImpulse"

\* acc is SpecificImpulse::from_U(v).as_W()
IsImpulseConversion(u, v, w) == IsImpulseRead(w) /\ ctor.unit = u /\ raw = v

\* C22: for every isp, isp.as_exhaust_velocity() is isp.as_seconds() * 9.80665
\* and as_exhaust_velocity_kmps() is that value / 1000; 300 s gives 2942 m/s
\* within 1 m/s, and from_exhaust_velocity(2942).as_seconds() is 300 s
\* within 1e-4.
C22_ExhaustVelocity ==
    /\ IsImpulseRead("exhaust_velocity")
           => acc.value = FMul[SpecificImpulse_as(a, "seconds"), Lit[980665, 100000]]
    /\ IsImpulseRead("exhaust_velocity_kmps")
           => acc.value = FDiv[FMul[SpecificImpulse_as(a, "seconds"), Lit[980665, 100000]],
                               Lit[1000, 1]]
    /\ IsImpulseConversion("seconds", Lit[300, 1], "exhaust_velocity")
           => FLt(FAbs[FSub[acc.value, Lit[2942, 1]]], Lit[1, 1])
    /\ IsImpulseConversion("exhaust_velocity", Lit[2942, 1], "seconds")
           => WithinTol(acc.value, Lit[300, 1])

\* from_seconds(300).as_exhaust_velocity(): about 2942 m/s, and not 300 * 9.81.
C22_Witness ==
    /\ IsImpulseConversion("seconds", Lit[300, 1], "exhaust_velocity")
    /\ FLt(FAbs[FSub[acc.value, Lit[2942, 1]]], Lit[1, 1])
    /\ acc.value # Lit[2943, 1]

(***************************************************************************)
(* Immutability, under SpecFrame.                                          *)
(***************************************************************************)
\* C23: no operation (accessors, + - * /, comparisons, unary -, abs,
\* normalize, normalize_signed, sin, cos, tan, is_positive,
\* specific_impulse, rendering) changes an existing quantity: once built,
\* a, b and c stay as they are at every step, and a keeps the canonical
\* value its constructor gave it; results are new values, held in acc.
C23_Immutability ==
    /\ [][(a # NoQ => a' = a) /\ b' = b /\ c' = c]_vars
    /\ [](ctor # NoCtor => a = Construct(ctor.kind, ctor.unit, raw, ctor.aux))

\* from_U(-3).abs(): the result is 3 in the canonical unit while the
\* quantity abs was called on still holds the negative value it was built with.
C23_Witness ==
    /\ Len(steps) = 1 /\ LastOp = "abs"
    /\ raw = Lit[-3, 1]
    /\ a = Construct(ctor.kind, ctor.unit, raw, ctor.aux)
    /\ FLt(Val(a), Zero(0))
    /\ Val(acc) = FAbs[Val(a)]
    /\ acc # a

(***************************************************************************)
(* The conversion constant of each unit, under SpecConv.                   *)
(***************************************************************************)
\* The constant of unit u of kind k and the way its constructor uses it:
\* "mul" (from_U multiplies by it, as_U divides by it), "div" (from_U
\* divides by it, as_U multiplies by it), "pi" (Angle's degree-based units:
\* from_U is v * PI / d, as_U is radians * d / PI; the constant is PI / d)
\* or "arg" (Mach: the constant is the speed of sound passed to the call).
Factor(k, u) ==
    CASE u = CanonicalUnit(k) -> [how |-> "mul", k |-> Lit[1, 1]]
      [] u \in {"kilometers", "kilometers_per_second", "tonnes", "kilonewtons", "kilopascals",
                "tonnes_per_s"} -> [how |-> "mul", k |-> Lit[1000, 1]]
      [] u \in {"feet", "feet_per_second"} -> [how |-> "mul", k |-> Lit[3048, 10000]]
      [] u = "nautical_miles" -> [how |-> "mul", k |-> Lit[1852, 1]]
      [] u = "miles" -> [how |-> "mul", k |-> Lit[1609344, 1000]]
      [] u = "knots" -> [how |-> "mul", k |-> Lit[514444, 1000000]]
      [] u = "miles_per_hour" -> [how |-> "mul", k |-> Lit[44704, 100000]]
      [] u \in {"pounds", "lb_per_s"} -> [how |-> "mul", k |-> Lit[453592, 1000000]]
      [] u = "slugs" -> [how |-> "mul", k |-> Lit[145939, 10000]]
      [] u \in {"meganewtons", "megapascals"} -> [how |-> "mul", k |-> Lit[1000000, 1]]
      [] u = "pounds_force" -> [how |-> "mul", k |-> Lit[444822, 100000]]
      [] u = "kilopounds_force" -> [how |-> "mul", k |-> Lit[444822, 100]]
      [] u = "bar" -> [how |-> "mul", k |-> Lit[100000, 1]]
      [] u = "atmospheres" -> [how |-> "mul", k |-> Lit[101325, 1]]
      [] u = "psi" -> [how |-> "mul", k |-> Lit[6894757, 1000]]
      [] u = "inches_hg" -> [how |-> "mul", k |-> Lit[3386389, 1000]]
      [] u = "mmhg" -> [how |-> "mul", k |-> Lit[133322, 1000]]
      [] u = "revolutions" -> [how |-> "mul", k |-> TwoPi]
      [] u = "grams" -> [how |-> "div", k |-> Lit[1000, 1]]
      [] u = "kilometers_per_hour" -> [how |-> "div", k |-> Lit[36, 10]]
      [] u = "kg_per_min" -> [how |-> "div", k |-> Lit[60, 1]]
      [] u = "exhaust_velocity" -> [how |-> "div", k |-> Lit[980665, 100000]]
      [] u = "degrees" -> [how |-> "pi", k |-> FDiv[PI, Lit[180, 1]]]
      [] u = "arcminutes" -> [how |-> "pi", k |-> FDiv[PI, Lit[10800, 1]]]
      [] u = "arcseconds" -> [how |-> "pi", k |-> FDiv[PI, Lit[648000, 1]]]
      [] u = "mach" -> [how |-> "arg", k |-> NoF]

\* The one factor the claim speaks of: the canonical units per unit of U
\* (for Mach, at the speed of sound of the crate's test).
OneFactor(k, u) ==
    CASE Factor(k, u).how = "div" -> FDiv[Lit[1, 1], Factor(k, u).k]
      [] Factor(k, u).how = "arg" -> Lit[34029, 100]
      [] OTHER -> Factor(k, u).k

\* a is K::from_U(raw)
IsBuilt == ctor # NoCtor

\* acc is a.as_U() for a unit U that has a constructor.
IsRead == steps # <<>> /\ steps[1].op = "as" /\ steps[1].unit \in Units(a.kind)

\* x is v times f, exactly or (for the degree-based units) within 1e-4
\* when v is finite and x is zero or a normal number.
Times(f, v, aux, x) ==
    CASE f.how = "mul" -> x = FMul[v, f.k]
      [] f.how = "div" -> x = FDiv[v, f.k]
      [] f.how = "arg" -> x = FMul[v, aux]
      [] f.how = "pi" -> (IsFinite(v) /\ (IsZero(v) \/ IsNormal(x))) => WithinTol(x, FMul[v, f.k])

\* x is v over f, likewise.
Over(f, v, aux, x) ==
    CASE f.how = "mul" -> x = FDiv[v, f.k]
      [] f.how = "div" -> x = FMul[v, f.k]
      [] f.how = "arg" -> x = FDiv[v, aux]
      [] f.how = "pi" -> (IsFinite(v) /\ (IsZero(v) \/ IsNormal(x))) => WithinTol(x, FDiv[v, f.k])

\* C24 as stated: every unit has one fixed factor; from_U(v) is v * factor(U)
\* and as_U is the canonical value / factor(U).
C24_OneFactorMultiplied ==
    /\ IsBuilt => Val(a) = FMul[raw, OneFactor(ctor.kind, ctor.unit)]
    /\ IsRead => acc.value = FDiv[Val(a), OneFactor(a.kind, steps[1].unit)]

\* C24 amended: every unit but Mach has one fixed constant k(U) that its
\* constructor and its accessor apply in opposite directions: from_U(v) is
\* v * k(U) and as_U is canonical / k(U); for Mass grams (1000), Velocity
\* km/h (3.6), MassFlowRate kg/min (60) and SpecificImpulse exhaust velocity
\* (9.80665) from_U(v) is v / k(U) and as_U is canonical * k(U); for Angle's
\* degrees, arcminutes and arcseconds the results are v * (PI / d) and
\* radians / (PI / d) within 1e-4; from_mach and as_mach multiply and divide
\* by the speed of sound given in the call.
C24_OneConstant ==
    /\ IsBuilt => Times(Factor(ctor.kind, ctor.unit), raw, ctor.aux, Val(a))
    /\ IsRead => Over(Factor(a.kind, steps[1].unit), Val(a), steps[1].aux, acc.value)

\* from_grams(v).as_grams() for a v whose quotient by 1000 is not its
\* product with 0.001: the constructor divided by 1000 and the accessor
\* multiplied by it.
C24_Witness ==
    /\ IsBuilt /\ IsRead
    /\ ctor.unit = "grams" /\ steps[1].unit = "grams"
    /\ Val(a) = FDiv[raw, Lit[1000, 1]]
    /\ Val(a) # FMul[raw, Lit[1, 1000]]
    /\ acc.value = FMul[Val(a), Lit[1000, 1]]

(***************************************************************************)
(* normalize_signed as the signed representative, under SpecAngle.         *)
(***************************************************************************)
\* acc is a.normalize_signed()
IsSigned == Len(steps) = 1 /\ LastOp = "normalize_signed"

\* acc is Angle::from_degrees(d).normalize_signed()
SignedOfDegrees(d) == IsSigned /\ ctor.unit = "degrees" /\ raw = d

\* C25 as stated: for every Angle a, a.normalize_signed() differs from a by
\* a whole number of turns; 270 degrees maps to -90 degrees, 190 degrees to
\* -170 degrees and exactly 180 degrees to -180 degrees.
C25_SignedRepresentativeAll ==
    /\ IsSigned => Congruent(Val(acc), Val(a))
    /\ SignedOfDegrees(Lit[270, 1]) => WithinTol(Angle_as(acc, "degrees"), Lit[-90, 1])
    /\ SignedOfDegrees(Lit[190, 1]) => WithinTol(Angle_as(acc, "degrees"), Lit[-170, 1])
    /\ SignedOfDegrees(Lit[180, 1]) => WithinTol(Angle_as(acc, "degrees"), Lit[-180, 1])

\* C25 amended: for every finite Angle a, a.normalize_signed() differs from
\* a by a whole number of turns (within 1e-4 of a turn); 270 degrees maps to
\* -90 degrees, 190 degrees to -170 degrees and 180 degrees to -180 degrees
\* (within 1e-4).
C25_SignedRepresentative ==
    /\ (IsSigned /\ IsFinite(Val(a))) => Congruent(Val(acc), Val(a))
    /\ SignedOfDegrees(Lit[270, 1]) => WithinTol(Angle_as(acc, "degrees"), Lit[-90, 1])
    /\ SignedOfDegrees(Lit[190, 1]) => WithinTol(Angle_as(acc, "degrees"), Lit[-170, 1])
    /\ SignedOfDegrees(Lit[180, 1]) => WithinTol(Angle_as(acc, "degrees"), Lit[-180, 1])

\* from_degrees(180).normalize_signed(): the boundary pi is sent to -pi,
\* -180 degrees, one turn below the angle it came from.
C25_Witness ==
    /\ SignedOfDegrees(Lit[180, 1])
    /\ Val(acc) = FNeg[PI]
    /\ WithinTol(Angle_as(acc, "degrees"), Lit[-180, 1])
    /\ Congruent(Val(acc), Val(a))

(***************************************************************************)
(* The thrust identity F = mdot * v_e, under SpecRocket.                   *)
(***************************************************************************)
\* acc is a.specific_impulse(b) for a mass flow b that is not zero.
IsImpulseOfFlow == IsSpecificImpulse /\ ~IsZero(MassFlowRate_as(b, "kg_per_s"))

\* F.specific_impulse(mdot).as_exhaust_velocity() * mdot.as_kg_per_s(), for
\* the impulse acc of the thrust a and the mass flow b.
ThrustOfImpulse == FMul[SpecificImpulse_as(acc, "exhaust_velocity"), MassFlowRate_as(b, "kg_per_s")]

IsTorr760 == IsBuilt /\ ctor.kind = "Pressure" /\ ctor.unit = "mmhg" /\ raw = Lit[760, 1]

\* acc is Pressure::sea_level().as_mmhg(), sea_level() being from_atmospheres(1.0)
IsSeaLevelInMmhg ==
    /\ IsRead /\ steps[1].unit = "mmhg"
    /\ ctor.kind = "Pressure" /\ ctor.unit = "atmospheres" /\ raw = Lit[1, 1]

\* C27: Pressure::from_mmhg(760) is the same pressure as
\* Pressure::from_atmospheres(1) and Pressure::sea_level(), 101,325 Pa, and
\* Pressure::sea_level().as_mmhg() is 760.
C27_Torr760IsOneAtmosphere ==
    /\ IsTorr760 => /\ Quantity_eq(a, Pressure_from("atmospheres", Lit[1, 1]))
                    /\ Quantity_eq(a, Pressure_sea_level)
                    /\ Pressure_as(a, "pascals") = Lit[101325, 1]
    /\ IsSeaLevelInMmhg => (a = Pressure_sea_level /\ acc.value = Lit[760, 1])

(***************************************************************************)
(* Angle's units against each other, under SpecConv.                       *)
(***************************************************************************)
\* acc is Angle::from_U(raw).as_W()
IsAngleConversion(u, w) ==
    /\ IsBuilt /\ ctor.kind = "Angle" /\ ctor.unit = u
    /\ steps # <<>> /\ steps[1].op = "as" /\ steps[1].unit = w

\* acc is raw times n within 1e-4, or the very infinity or NaN that product is.
IsTimes(n) == acc.value = FMul[raw, Lit[n, 1]] \/ WithinTol(acc.value, FMul[raw, Lit[n, 1]])

\* Neither conversion overflowed or underflowed: raw is finite, and zero
\* or taken to normal numbers.
InRange == IsFinite(raw) /\ (IsZero(raw) \/ (IsNormal(Val(a)) /\ IsNormal(acc.value)))

\* C28 as stated: for every input, from_degrees(d).as_arcminutes() is 60 d,
\* from_degrees(d).as_arcseconds() is 3600 d, from_revolutions(r).as_degrees()
\* is 360 r and from_degrees(180).as_radians() is pi, each within tolerance.
C28_AngleUnitsAll ==
    /\ IsAngleConversion("degrees", "arcminutes") => IsTimes(60)
    /\ IsAngleConversion("degrees", "arcseconds") => IsTimes(3600)
    /\ IsAngleConversion("revolutions", "degrees") => IsTimes(360)
    /\ (IsAngleConversion("degrees", "radians") /\ raw = Lit[180, 1])
           => Near(acc.value, PI, Lit[1, 10000])

\* C28 amended: the same for every finite input that neither conversion
\* takes out of the range of normal numbers.
C28_AngleUnits ==
    /\ (IsAngleConversion("degrees", "arcminutes") /\ InRange) => IsTimes(60)
    /\ (IsAngleConversion("degrees", "arcseconds") /\ InRange) => IsTimes(3600)
    /\ (IsAngleConversion("revolutions", "degrees") /\ InRange) => IsTimes(360)
    /\ (IsAngleConversion("degrees", "radians") /\ raw = Lit[180, 1])
           => Near(acc.value, PI, Lit[1, 10000])

\* from_degrees(1).as_arcseconds(): 3600, as in test_arcseconds.
C28_Witness ==
    /\ IsAngleConversion("degrees", "arcseconds") /\ InRange
    /\ raw = Lit[1, 1]
    /\ Near(acc.value, Lit[3600, 1], Lit[1, 10000])

(***************************************************************************)
(* Idempotence of the two normalisations, under SpecAngle.                 *)
(***************************************************************************)
\* acc is a.first().second()
IsTwice(first, second) ==
    Len(steps) = 2 /\ steps[1].op = first /\ steps[2].op = second

\* C29, for the finite angles it covers: a.normalize().normalize() ==
\* a.normalize(), a.normalize_signed().normalize_signed() ==
\* a.normalize_signed() and a.normalize_signed().normalize() == a.normalize().
C29_Idempotent ==
    /\ (IsTwice("normalize", "normalize") /\ IsFinite(Val(a)))
           => Quantity_eq(acc, Angle_normalize(a))
    /\ (IsTwice("normalize_signed", "normalize_signed") /\ IsFinite(Val(a)))
           => Quantity_eq(acc, Angle_normalize_signed(a))
    /\ (IsTwice("normalize_signed", "normalize") /\ IsFinite(Val(a)))
           => Quantity_eq(acc, Angle_normalize(a))

(***************************************************************************)
(* Order under unit conversion, under SpecConv.                            *)
(***************************************************************************)
\* The finite inputs a second quantity is built from for comparison.
FiniteInputs == {y \in ConvInputs : IsFinite(y)}

\* a is K::from_U(raw) for a finite raw and a fixed-factor unit U.
IsBuiltFinite == IsBuilt /\ ctor.unit # "mach" /\ IsFinite(raw)

\* acc is a.as_U() for a fixed-factor unit U.
IsReadFixed == IsRead /\ steps[1].unit # "mach"

\* K::from_U(y), in the unit a was built in.
Sibling(y) == Construct(ctor.kind, ctor.unit, y, NoF)

\* The quantity of a's kind holding the canonical value y.
Peer(y) == Construct(a.kind, CanonicalUnit(a.kind), y, NoF)

\* C30 as stated: x < y exactly when from_U(x) < from_U(y); a < b exactly
\* when a.as_U() < b.as_U(); is_positive is the sign of the value the
\* quantity was constructed from.
C30_OrderPreservedStrictly ==
    /\ IsBuiltFinite =>
           \A y \in FiniteInputs : FLt(raw, y) <=> Quantity_lt(a, Sibling(y))
    /\ IsReadFixed =>
           \A y \in FiniteInputs :
               Quantity_lt(a, Peer(y)) <=> FLt(acc.value, Access(Peer(y), steps[1].unit, NoF))
    /\ (IsBuiltFinite /\ ctor.kind \in PositiveKinds) =>
           (Quantity_is_positive(a) <=> FGt(raw, Zero(0)))

\* C30 amended: conversion never reverses an order: x < y implies
\* from_U(x) <= from_U(y) and from_U(x) < from_U(y) implies x < y; a < b
\* implies a.as_U() <= b.as_U() and a.as_U() < b.as_U() implies a < b; a
\* positive quantity was built from a positive value, and a positive value
\* gives a positive quantity unless it underflows to zero.
C30_OrderPreserved ==
    /\ IsBuiltFinite =>
           \A y \in FiniteInputs :
               /\ FLt(raw, y) => Quantity_le(a, Sibling(y))
               /\ Quantity_lt(a, Sibling(y)) => FLt(raw, y)
    /\ IsReadFixed =>
           \A y \in FiniteInputs :
               /\ Quantity_lt(a, Peer(y)) => FLe(acc.value, Access(Peer(y), steps[1].unit, NoF))
               /\ FLt(acc.value, Access(Peer(y), steps[1].unit, NoF)) => Quantity_lt(a, Peer(y))
    /\ (IsBuiltFinite /\ ctor.kind \in PositiveKinds) =>
           /\ Quantity_is_positive(a) => FGt(raw, Zero(0))
           /\ (FGt(raw, Zero(0)) /\ ~IsZero(Val(a))) => Quantity_is_positive(a)

\* from_feet of the smallest positive f64: the product with 0.3048
\* underflows to zero, so the quantity equals from_feet(0.0) and is not
\* positive, although 0 < raw.
C30_Witness ==
    /\ IsBuiltFinite /\ ctor.unit = "feet"
    /\ raw = MinSubnormal
    /\ FLt(Zero(0), raw)
    /\ Quantity_eq(a, Sibling(Zero(0)))
    /\ ~Quantity_is_positive(a)

====
